---- MODULE Spec2Model ----
(***************************************************************************)
(* Charity-events website: the browser-side API client (CharityEventsAPI), *)
(* the Express API server it talks to, and the database rows behind it.    *)
(*                                                                         *)
(* JavaScript strings are modelled as sequences of one-character strings   *)
(* so that trimming, parsing and formatting are computed, not assumed.     *)
(* JavaScript numbers are modelled as decimal fractions n/d (d a power of  *)
(* ten) or NaN.                                                            *)
(***************************************************************************)
EXTENDS Integers, Sequences, FiniteSets, TLC

(***************************************************************************)
(* Bounds of the model                                                     *)
(***************************************************************************)
\* number of rows in the events table
NumEvents == 2
\* longest list of records received in one response (record validation)
MaxReceived == 2

(***************************************************************************)
(* Characters and strings                                                  *)
(***************************************************************************)
DigitChars == <<"0", "1", "2", "3", "4", "5", "6", "7", "8", "9">>

IsDigit(c) == \E i \in 1..10 : DigitChars[i] = c

DigitVal(c) == (CHOOSE i \in 1..10 : DigitChars[i] = c) - 1

IsSpace(c) == c = " "

LowerOf(c) ==
    CASE c = "A" -> "a" [] c = "B" -> "b" [] c = "C" -> "c" [] c = "D" -> "d"
      [] c = "E" -> "e" [] c = "F" -> "f" [] c = "G" -> "g" [] c = "H" -> "h"
      [] c = "I" -> "i" [] c = "J" -> "j" [] c = "K" -> "k" [] c = "L" -> "l"
      [] c = "M" -> "m" [] c = "N" -> "n" [] c = "O" -> "o" [] c = "P" -> "p"
      [] c = "Q" -> "q" [] c = "R" -> "r" [] c = "S" -> "s" [] c = "T" -> "t"
      [] c = "U" -> "u" [] c = "V" -> "v" [] c = "W" -> "w" [] c = "X" -> "x"
      [] c = "Y" -> "y" [] c = "Z" -> "z" [] OTHER -> c

\* String.prototype.toLowerCase
ToLowerCase(s) == [i \in 1..Len(s) |-> LowerOf(s[i])]

\* String.prototype.includes
Includes(s, sub) ==
    \E i \in 0..(Len(s) - Len(sub)) :
        \A j \in 1..Len(sub) : s[i + j] = sub[j]

RECURSIVE TrimStart(_)
TrimStart(s) ==
    IF s = <<>> THEN <<>>
    ELSE IF IsSpace(Head(s)) THEN TrimStart(Tail(s)) ELSE s

RECURSIVE TrimEnd(_)
TrimEnd(s) ==
    IF s = <<>> THEN <<>>
    ELSE IF IsSpace(s[Len(s)]) THEN TrimEnd(SubSeq(s, 1, Len(s) - 1)) ELSE s

\* String.prototype.trim
Trim(s) == TrimEnd(TrimStart(s))

(***************************************************************************)
(* JavaScript numbers: [nan, n, d] is NaN or the fraction n/d, d in        *)
(* {1, 10, 100, ...}, kept in lowest decimal form.                         *)
(***************************************************************************)
NaN == [nan |-> TRUE, n |-> 0, d |-> 1]

Num(n, d) == [nan |-> FALSE, n |-> n, d |-> d]

RECURSIVE Normalize(_)
Normalize(x) ==
    IF x.nan \/ x.d = 1 \/ x.n % 10 # 0 THEN x
    ELSE Normalize(Num(x.n \div 10, x.d \div 10))

NumEq(x, y) == ~x.nan /\ ~y.nan /\ x.n * y.d = y.n * x.d

IsInteger(x) == ~x.nan /\ Normalize(x).d = 1

IsPositiveInteger(x) == IsInteger(x) /\ x.n > 0

\* value of a run of decimal digits
RECURSIVE DigitsVal(_)
DigitsVal(s) ==
    IF s = <<>> THEN 0
    ELSE DigitsVal(SubSeq(s, 1, Len(s) - 1)) * 10 + DigitVal(s[Len(s)])

RECURSIVE Pow10(_)
Pow10(k) == IF k = 0 THEN 1 ELSE 10 * Pow10(k - 1)

RECURSIVE Pow2(_)
Pow2(k) == IF k = 0 THEN 1 ELSE 2 * Pow2(k - 1)

AllDigits(s) == \A i \in 1..Len(s) : IsDigit(s[i])

\* position of the first "." in s, or 0
DotPos(s) ==
    IF \E i \in 1..Len(s) : s[i] = "."
    THEN CHOOSE i \in 1..Len(s) : s[i] = "." /\ \A j \in 1..(i - 1) : s[j] # "."
    ELSE 0

\* an unsigned decimal literal: digits, optionally "." and more digits
UnsignedDecimal(s) ==
    LET p == DotPos(s)
        ip == IF p = 0 THEN s ELSE SubSeq(s, 1, p - 1)
        fp == IF p = 0 THEN <<>> ELSE SubSeq(s, p + 1, Len(s))
    IN IF s = <<>> \/ ~AllDigits(ip) \/ ~AllDigits(fp) \/ (ip = <<>> /\ fp = <<>>)
       THEN NaN
       ELSE Normalize(Num(DigitsVal(ip) * Pow10(Len(fp)) + DigitsVal(fp), Pow10(Len(fp))))

SignedDecimal(s) ==
    IF s # <<>> /\ Head(s) = "-"
    THEN LET u == UnsignedDecimal(Tail(s)) IN IF u.nan THEN NaN ELSE Num(0 - u.n, u.d)
    ELSE IF s # <<>> /\ Head(s) = "+" THEN UnsignedDecimal(Tail(s))
    ELSE UnsignedDecimal(s)

\* Number(string): white space is trimmed, the empty string is 0, a decimal
\* literal is its value, anything else is NaN
StringToNumber(s) ==
    LET t == Trim(s) IN IF t = <<>> THEN Num(0, 1) ELSE SignedDecimal(t)

RECURSIVE NatToString(_)
NatToString(n) ==
    IF n < 10 THEN <<DigitChars[n + 1]>>
    ELSE NatToString(n \div 10) \o <<DigitChars[(n % 10) + 1]>>

RECURSIVE FracDigits(_, _)
FracDigits(r, d) ==
    IF d = 1 THEN <<>> ELSE FracDigits(r \div 10, d \div 10) \o <<DigitChars[(r % 10) + 1]>>

\* Number.prototype.toString for the numbers of the model
NumberToString(x) ==
    IF x.nan THEN <<"N", "a", "N">>
    ELSE LET y == Normalize(x)
             a == IF y.n < 0 THEN 0 - y.n ELSE y.n
             body == NatToString(a \div y.d) \o
                     (IF y.d = 1 THEN <<>> ELSE <<".">> \o FracDigits(a % y.d, y.d))
         IN IF y.n < 0 THEN <<"-">> \o body ELSE body

(***************************************************************************)
(* JavaScript values handed to the client: undefined, a string or a number *)
(***************************************************************************)
Undefined == [k |-> "undefined", s |-> <<>>, v |-> NaN]

JStr(s) == [k |-> "string", s |-> s, v |-> NaN]

JNum(n, d) == [k |-> "number", s |-> <<>>, v |-> Num(n, d)]

\* ToBoolean
Truthy(x) ==
    CASE x.k = "undefined" -> FALSE
      [] x.k = "string" -> x.s # <<>>
      [] x.k = "number" -> ~x.v.nan /\ x.v.n # 0

\* Number(x)
ToNumber(x) ==
    CASE x.k = "undefined" -> NaN
      [] x.k = "string" -> StringToNumber(x.s)
      [] x.k = "number" -> x.v

\* String(x), as in a template literal
JsString(x) ==
    CASE x.k = "undefined" -> <<"u", "n", "d", "e", "f", "i", "n", "e", "d">>
      [] x.k = "string" -> x.s
      [] x.k = "number" -> NumberToString(x.v)

(***************************************************************************)
(* Timestamps: [y, m, d, h], compared field by field.  The rows of the     *)
(* model keep clear of month boundaries, so a shift by the server's UTC    *)
(* offset changes at most the day and the hour.                            *)
(***************************************************************************)
Time(y, m, d, h) == [y |-> y, m |-> m, d |-> d, h |-> h]

\* shift a timestamp by k hours, -24 < k < 24
ShiftHours(t, k) ==
    LET h == t.h + k
    IN IF h < 0 THEN [t EXCEPT !.d = t.d - 1, !.h = h + 24]
       ELSE IF h > 23 THEN [t EXCEPT !.d = t.d + 1, !.h = h - 24]
       ELSE [t EXCEPT !.h = h]

TimeLess(a, b) ==
    \/ a.y < b.y
    \/ a.y = b.y /\ a.m < b.m
    \/ a.y = b.y /\ a.m = b.m /\ a.d < b.d
    \/ a.y = b.y /\ a.m = b.m /\ a.d = b.d /\ a.h < b.h

DayOf(t) == <<t.y, t.m, t.d>>

\* the calendar day written as YYYY-MM-DD, or <<>> when s is not such a date
ParseIsoDay(s) ==
    IF /\ Len(s) = 10
       /\ s[5] = "-" /\ s[8] = "-"
       /\ AllDigits(SubSeq(s, 1, 4)) /\ AllDigits(SubSeq(s, 6, 7)) /\ AllDigits(SubSeq(s, 9, 10))
    THEN LET y == DigitsVal(SubSeq(s, 1, 4))
             m == DigitsVal(SubSeq(s, 6, 7))
             d == DigitsVal(SubSeq(s, 9, 10))
         IN IF m \in 1..12 /\ d \in 1..31 THEN <<y, m, d>> ELSE <<>>
    ELSE <<>>

\* a JSON timestamp string (the ISO form of a UTC instant)
JTime(t) == [k |-> "timestamp", s |-> <<>>, v |-> NaN, t |-> t]

JNull == [k |-> "null", s |-> <<>>, v |-> NaN]

\* ToBoolean over every value that can arrive in a JSON body
JsTruthy(x) ==
    CASE x.k = "timestamp" -> TRUE
      [] x.k = "null" -> FALSE
      [] OTHER -> Truthy(x)

\* Number(x) over JSON values; a timestamp string is not a numeric literal
JsNumber(x) ==
    CASE x.k = "timestamp" -> NaN
      [] x.k = "null" -> Num(0, 1)
      [] OTHER -> ToNumber(x)

(***************************************************************************)
(* The database: schema.sql                                                *)
(***************************************************************************)
S_Run == <<"R", "u", "n">>
S_Gala == <<"G", "a", "l", "a">>
S_ParkWalk == <<"P", "a", "r", "k", " ", "W", "a", "l", "k">>
S_Fair == <<"F", "a", "i", "r">>
S_CityPark == <<"C", "i", "t", "y", " ", "P", "a", "r", "k">>
S_Hall == <<"H", "a", "l", "l">>
S_Beach == <<"B", "e", "a", "c", "h">>
S_FunRun == <<"F", "u", "n", " ", "R", "u", "n">>
S_Dinner == <<"D", "i", "n", "n", "e", "r">>
S_Uncategorized == <<"U", "n", "c", "a", "t", "e", "g", "o", "r", "i", "z", "e", "d">>
S_search == <<"s", "e", "a", "r", "c", "h">>

\* categories(id, name)
CategoryName(c) == IF c = 1 THEN S_FunRun ELSE S_Dinner

CategoryIds == {1, 2}

\* events(id, name, short_description, date_time, location, category_id,
\* ticket_price, goal_amount, current_amount); date_time is in the server's
\* local time; short_description is nullable (<<>> stands for NULL)
EventRow(i) ==
    CASE i = 1 -> [id |-> 1, name |-> S_Run, short_description |-> <<"5", "k">>,
                   date_time |-> Time(2025, 9, 15, 10),
                   location |-> S_CityPark, category_id |-> 1,
                   ticket_price |-> <<"2", "5", ".", "0", "0">>,
                   goal_amount |-> <<"1", "0", "0", ".", "0", "0">>,
                   current_amount |-> <<"6", "5", ".", "0", "0">>]
      [] i = 2 -> [id |-> 2, name |-> S_ParkWalk, short_description |-> <<>>,
                   date_time |-> Time(2025, 9, 20, 8),
                   location |-> S_Hall, category_id |-> 2,
                   ticket_price |-> <<"0", ".", "0", "0">>,
                   goal_amount |-> <<"0", ".", "0", "0">>,
                   current_amount |-> <<"0", ".", "0", "0">>]
      [] i = 3 -> [id |-> 3, name |-> S_Gala, short_description |-> <<"T", "e", "a">>,
                   date_time |-> Time(2025, 9, 15, 19),
                   location |-> S_Beach, category_id |-> 2,
                   ticket_price |-> <<"0", ".", "0", "0">>,
                   goal_amount |-> <<"5", "0", ".", "0", "0">>,
                   current_amount |-> <<"8", "0", ".", "0", "0">>]
      [] OTHER -> [id |-> i, name |-> S_Fair, short_description |-> <<>>,
                   date_time |-> Time(2025, 9, 20 + i, 12),
                   location |-> S_Hall, category_id |-> 2,
                   ticket_price |-> <<"5", ".", "0", "0">>,
                   goal_amount |-> <<"0", ".", "0", "0">>,
                   current_amount |-> <<"0", ".", "0", "0">>]

EventIds == 1..NumEvents

\* is_active BOOLEAN DEFAULT TRUE: a nullable column
ActiveValues == {"TRUE", "FALSE", "NULL"}

\* UTC offsets (hours) of the machine the API server runs on
TzOffsets == {0, 10}

(***************************************************************************)
(* State                                                                   *)
(***************************************************************************)
VARIABLES
    active,       \* events.is_active of every row
    tz,           \* UTC offset of the API server's machine
    envelope,     \* TRUE: bodies are {success, data} (server.js); FALSE: bare
    op,           \* the API client method being awaited, or "none"
    arg,          \* its argument: [id, filters]
    pc,           \* "idle", "inflight", "sleeping", "resolved", "rejected", "delivered"
    endpoint,     \* the request of the call: [path, query]
    retryCount,   \* _makeRequestWithRetry's retryCount
    attempts,     \* HTTP attempts issued by the call so far
    inflight,     \* HTTP attempts of the call now in flight
    delays,       \* the delays slept by the call so far
    now,          \* ms since the call started
    issuedAt,     \* when each attempt was issued
    failedAt,     \* when each failed attempt settled
    last,         \* how the last settled attempt ended
    result,       \* the value the call resolved with
    error,        \* the error the call rejected with
    held,         \* the events a page controller holds
    displayed,    \* the events the search script shows
    psPc,         \* performSearch (search script): "idle", "search", "fallback", "shown", "error"
    psFilters,    \* its filters
    windowApi,    \* window.charityEventsAPI is set
    homePc,       \* HomePage.init: "new", "waiting", "ready", "failed"
    homeWaited,   \* ms spent in _waitForDependencies
    home,         \* HomePage's this.api and this.state
    homeDom,      \* the home page's panels and the list rendered in the container
    homeLoads,    \* _loadInitialData calls awaiting their data
    homeLast,     \* the handler of HomePage that ran last, and the list it was given
    sp,           \* SearchPage's this.state
    spDom,        \* the search page's panels and the list rendered in the container
    storage,      \* localStorage: the item 'search_state'
    spPending,    \* _performSearch calls awaiting api.searchEvents
    spLast,       \* the handler of SearchPage that ran last, and what it did
    sorting,      \* a sort of a list on its own: arguments and results
    hist,         \* SearchPage's searchHistory, the item 'search_history', and the searches completed
    evp,           \* EventPage's this.state, and what init, destroy and the listeners have done
    evDom,        \* the event page's panels, dialog, scroll style and focused element
    evEnv,        \* the URL's id, the loads in flight and the timers of the event page
    nav,          \* NavigationManager's this.state and the width of the window
    calc          \* a rendering or a filtering on its own: arguments and results

dbVars == <<active, tz, envelope>>

apiVars == <<op, arg, pc, endpoint, retryCount, attempts, inflight, delays,
             now, issuedAt, failedAt, last, result, error>>

pageVars == <<held, displayed, psPc, psFilters>>

homeVars == <<windowApi, homePc, homeWaited, home, homeDom, homeLoads, homeLast>>

searchPageVars == <<sp, spDom, storage, spPending, spLast>>

eventVars == <<evp, evDom, evEnv, nav>>

restVars == <<hist, eventVars, calc>>

nonEventVars == <<dbVars, apiVars, pageVars, homeVars, searchPageVars, sorting, hist, calc>>

ctlVars == <<homeVars, searchPageVars, sorting, restVars>>

vars == <<active, tz, envelope, op, arg, pc, endpoint, retryCount, attempts,
          inflight, delays, now, issuedAt, failedAt, last, result, error,
          held, displayed, psPc, psFilters,
          windowApi, homePc, homeWaited, home, homeDom, homeLoads, homeLast,
          sp, spDom, storage, spPending, spLast, sorting, hist,
          evp, evDom, evEnv, nav, calc>>

(***************************************************************************)
(* The API server: server.js                                               *)
(***************************************************************************)
S_events == <<"e", "v", "e", "n", "t", "s">>
S_categories == <<"c", "a", "t", "e", "g", "o", "r", "i", "e", "s">>

NoQuery == [date |-> Undefined, location |-> Undefined, category |-> Undefined]

Request(path, query) == [path |-> path, query |-> query]

\* a route pattern is a sequence of literals and parameters
Literal(s) == [param |-> FALSE, s |-> s]

Param == [param |-> TRUE, s |-> <<>>]

\* the routes under /api in the order server.js registers them
Routes ==
    << [handler |-> "listEvents", pattern |-> <<Literal(S_events)>>],
       [handler |-> "eventById", pattern |-> <<Literal(S_events), Param>>],
       [handler |-> "search", pattern |-> <<Literal(S_events), Literal(S_search)>>],
       [handler |-> "categories", pattern |-> <<Literal(S_categories)>>] >>

\* Express matches a path against a pattern segment by segment
Matches(pattern, path) ==
    /\ Len(pattern) = Len(path)
    /\ \A i \in 1..Len(pattern) :
          IF pattern[i].param THEN path[i] # <<>> ELSE pattern[i].s = path[i]

\* Express runs the first registered route that matches; app.use('*') is last
DispatchOver(routes, path) ==
    IF \E i \in 1..Len(routes) : Matches(routes[i].pattern, path)
    THEN routes[CHOOSE i \in 1..Len(routes) :
                    /\ Matches(routes[i].pattern, path)
                    /\ \A j \in 1..(i - 1) : ~Matches(routes[j].pattern, path)].handler
    ELSE "notFound"

Dispatch(path) == DispatchOver(Routes, path)

\* MySQL's conversion of a string to a number: its longest numeric prefix,
\* 0 when it has none
SqlNumber(s) ==
    LET t == TrimStart(s)
        P == {i \in 1..Len(t) : ~SignedDecimal(SubSeq(t, 1, i)).nan}
    IN IF P = {} THEN Num(0, 1)
       ELSE SignedDecimal(SubSeq(t, 1, CHOOSE i \in P : \A j \in P : j <= i))

\* JSON bodies: an array, an object, the {success, data} envelope, an error
ArrayBody(items) == [kind |-> "array", items |-> items]

ObjectBody(fields) == [kind |-> "object", fields |-> fields]

EnvelopeBody(data) == [kind |-> "envelope", data |-> data]

ErrorBody == [kind |-> "error"]

\* WHERE e.is_active = true
IsActive(i) == active[i] = "TRUE"

\* the JSON form of a row of SELECT e.*, c.name as category_name
WireRecord(i) ==
    LET r == EventRow(i)
    IN [id |-> JNum(r.id, 1),
        name |-> JStr(r.name),
        short_description |-> IF r.short_description = <<>> THEN JNull
                              ELSE JStr(r.short_description),
        date_time |-> JTime(ShiftHours(r.date_time, 0 - tz)),
        location |-> JStr(r.location),
        category_id |-> JNum(r.category_id, 1),
        category_name |-> JStr(CategoryName(r.category_id)),
        ticket_price |-> JStr(r.ticket_price),
        goal_amount |-> JStr(r.goal_amount),
        current_amount |-> JStr(r.current_amount),
        is_active |-> CASE active[i] = "TRUE" -> JNum(1, 1)
                        [] active[i] = "FALSE" -> JNum(0, 1)
                        [] OTHER -> JNull]

\* ORDER BY e.date_time ASC over a set of row ids
RECURSIVE OrderByDate(_)
OrderByDate(S) ==
    IF S = {} THEN <<>>
    ELSE LET m == CHOOSE i \in S : \A j \in S :
                      \/ i = j
                      \/ TimeLess(EventRow(i).date_time, EventRow(j).date_time)
                      \/ (EventRow(i).date_time = EventRow(j).date_time /\ i < j)
         IN <<m>> \o OrderByDate(S \ {m})

\* the rows of a result set, each a JSON object
Rows(S) == LET o == OrderByDate(S) IN [k \in 1..Len(o) |-> ObjectBody(WireRecord(o[k]))]

\* if (x) on a query parameter: present and not empty
Given(x) == JsTruthy(x)

\* a listing without the is_active condition
ListWhere_All(i) == i \in EventIds

\* the WHERE clause of the listing
ListWhere(i) == IsActive(i)

\* the WHERE clause of GET /api/events/:id: e.id = ? AND e.is_active = true
ByIdWhere(i, seg) == NumEq(Num(EventRow(i).id, 1), SqlNumber(seg)) /\ IsActive(i)

\* the WHERE clause of GET /api/events/search
SearchWhere(i, q) ==
    LET r == EventRow(i)
    IN /\ IsActive(i)
       /\ Given(q.location) =>
             \/ Includes(ToLowerCase(r.location), ToLowerCase(q.location.s))
             \/ Includes(ToLowerCase(r.name), ToLowerCase(q.location.s))
       /\ Given(q.date) => DayOf(r.date_time) = ParseIsoDay(q.date.s)
       /\ Given(q.category) => NumEq(Num(r.category_id, 1), SqlNumber(q.category.s))

\* res.json({success: true, data: ...}), or res.json(...) of the bare payload
Wrap(data) == IF envelope THEN EnvelopeBody(data) ELSE data

Response(status, handler, body) == [status |-> status, handler |-> handler, body |-> body]

CategoryRows ==
    LET ids == CHOOSE q \in [1..Cardinality(CategoryIds) -> CategoryIds] :
                   \A a, b \in 1..Cardinality(CategoryIds) : a < b => q[a] < q[b]
    IN [k \in 1..Len(ids) |->
           ObjectBody([id |-> JNum(ids[k], 1), name |-> JStr(CategoryName(ids[k]))])]

\* what the server answers to a request; dbFails: the query throws
Serve(req, dbFails) ==
    LET h == Dispatch(req.path)
    IN CASE h = "notFound" -> Response(404, h, ErrorBody)
         [] dbFails -> Response(500, h, ErrorBody)
         [] h = "listEvents" ->
              Response(200, h, Wrap(ArrayBody(Rows({i \in EventIds : ListWhere(i)}))))
         [] h = "eventById" ->
              LET S == {i \in EventIds : ByIdWhere(i, req.path[2])}
              IN IF S = {} THEN Response(404, h, ErrorBody)
                 ELSE Response(200, h, Wrap(Rows(S)[1]))
         [] h = "search" ->
              Response(200, h, Wrap(ArrayBody(Rows({i \in EventIds : SearchWhere(i, req.query)}))))
         [] h = "categories" -> Response(200, h, Wrap(ArrayBody(CategoryRows)))

(***************************************************************************)
(* The API client: class CharityEventsAPI                                  *)
(***************************************************************************)
\* retryConfig
maxRetries == 3

retryDelay == 1000

M_HttpError == <<"H", "T", "T", "P", " ", "e", "r", "r", "o", "r">>
M_HttpErrorStatus == <<"H", "T", "T", "P", " ", "e", "r", "r", "o", "r", "!", " ", "s", "t", "a", "t", "u", "s", ":", " ">>
M_timeout == <<"t", "i", "m", "e", "o", "u", "t">>
M_status5 == <<"s", "t", "a", "t", "u", "s", ":", " ", "5">>
M_status404 == <<"s", "t", "a", "t", "u", "s", ":", " ", "4", "0", "4">>
M_status500 == <<"s", "t", "a", "t", "u", "s", ":", " ", "5", "0", "0">>
M_FailedToFetch == <<"F", "a", "i", "l", "e", "d", " ", "t", "o", " ", "f", "e", "t", "c", "h">>
M_Network == <<"N", "e", "t", "w", "o", "r", "k", " ", "e", "r", "r", "o", "r", ":", " ", "P", "l", "e", "a", "s", "e", " ", "c", "h", "e", "c", "k", " ", "y", "o", "u", "r", " ", "i", "n", "t", "e", "r", "n", "e", "t", " ", "c", "o", "n", "n", "e", "c", "t", "i", "o", "n">>
M_RequestTimeout == <<"R", "e", "q", "u", "e", "s", "t", " ", "t", "i", "m", "e", "o", "u", "t", ":", " ", "T", "h", "e", " ", "s", "e", "r", "v", "e", "r", " ", "i", "s", " ", "t", "a", "k", "i", "n", "g", " ", "t", "o", "o", " ", "l", "o", "n", "g", " ", "t", "o", " ", "r", "e", "s", "p", "o", "n", "d">>
M_NotFound == <<"R", "e", "s", "o", "u", "r", "c", "e", " ", "n", "o", "t", " ", "f", "o", "u", "n", "d">>
M_ServerError == <<"S", "e", "r", "v", "e", "r", " ", "e", "r", "r", "o", "r", ":", " ", "P", "l", "e", "a", "s", "e", " ", "t", "r", "y", " ", "a", "g", "a", "i", "n", " ", "l", "a", "t", "e", "r">>
M_Unexpected == <<"A", "n", " ", "u", "n", "e", "x", "p", "e", "c", "t", "e", "d", " ", "e", "r", "r", "o", "r", " ", "o", "c", "c", "u", "r", "r", "e", "d">>
M_InvalidId == <<"I", "n", "v", "a", "l", "i", "d", " ", "e", "v", "e", "n", "t", " ", "I", "D", " ", "p", "r", "o", "v", "i", "d", "e", "d">>
M_NullName == <<"C", "a", "n", "n", "o", "t", " ", "r", "e", "a", "d", " ", "p", "r", "o", "p", "e", "r", "t", "i", "e", "s", " ", "o", "f", " ", "n", "u", "l", "l", " ", "(", "r", "e", "a", "d", "i", "n", "g", " ", "'", "n", "a", "m", "e", "'", ")">>
S_UnnamedEvent == <<"U", "n", "n", "a", "m", "e", "d", " ", "E", "v", "e", "n", "t">>
S_UnnamedCategory == <<"U", "n", "n", "a", "m", "e", "d", " ", "C", "a", "t", "e", "g", "o", "r", "y">>

Err(name, message) == [name |-> name, message |-> message]

NoError == Err("none", <<>>)

\* what fetch() does with one attempt: it rejects with a TypeError (the
\* network is down), it rejects with a timeout error, or it yields the
\* server's response
FetchOutcomes(req) ==
    {[kind |-> "network", resp |-> Response(0, "none", ErrorBody)],
     [kind |-> "timeout", resp |-> Response(0, "none", ErrorBody)]}
    \cup {[kind |-> "response", resp |-> Serve(req, f)] : f \in BOOLEAN}

\* response.ok
Ok(resp) == resp.status \in 200..299

\* the error _makeRequest's try block throws for a fetch outcome
ThrownBy(out) ==
    CASE out.kind = "network" -> Err("TypeError", M_FailedToFetch)
      [] out.kind = "timeout" -> Err("Error", M_timeout)
      [] OTHER -> Err("Error", M_HttpErrorStatus \o NatToString(out.resp.status))

\* _handleError
HandleError(e) ==
    Err("Error",
        IF e.name = "TypeError" THEN M_Network
        ELSE IF Includes(e.message, M_timeout) THEN M_RequestTimeout
        ELSE IF Includes(e.message, M_status404) THEN M_NotFound
        ELSE IF Includes(e.message, M_status500) THEN M_ServerError
        ELSE M_Unexpected)

\* _makeRequest: the parsed body, or the error of _handleError
MakeRequest(out) ==
    IF out.kind = "response" /\ Ok(out.resp)
    THEN [ok |-> TRUE, data |-> out.resp.body, error |-> NoError]
    ELSE [ok |-> FALSE, data |-> ErrorBody, error |-> HandleError(ThrownBy(out))]

\* a retry policy that retries every failure
ShouldRetry_Any(e) == e.name # "none"

\* _shouldRetry
ShouldRetry(e) ==
    \/ e.name = "TypeError"
    \/ Includes(e.message, M_timeout)
    \/ (Includes(e.message, M_HttpError) /\ Includes(e.message, M_status5))

\* a linear backoff
RetryDelay_Linear(n) == retryDelay * (n + 1)

\* the delay before the retry that follows a failure at retryCount
RetryDelay(n) == retryDelay * Pow2(n)

\* _makeRequestWithRetry's catch: retry or give up
WillRetry(e, n) == ShouldRetry(e) /\ n < maxRetries

(***************************************************************************)
(* Record validation                                                       *)
(***************************************************************************)
EventFields == {"id", "name", "short_description", "date_time", "location", "category_id", "category_name",
                "ticket_price", "goal_amount", "current_amount", "is_active"}

requiredFields == <<"id", "name", "date_time", "location">>

TwoDigits(n) == IF n < 10 THEN <<"0">> \o NatToString(n) ELSE NatToString(n)

\* the ISO form of a UTC instant, as JSON.stringify writes a Date
IsoString(t) ==
    NatToString(t.y) \o <<"-">> \o TwoDigits(t.m) \o <<"-">> \o TwoDigits(t.d)
    \o <<"T">> \o TwoDigits(t.h) \o <<":", "0", "0", ":", "0", "0", ".", "0", "0", "0", "Z">>

\* String(x) over JSON values
JsonString(x) ==
    CASE x.k = "timestamp" -> IsoString(x.t)
      [] x.k = "null" -> <<"n", "u", "l", "l">>
      [] OTHER -> JsString(x)

InvalidDate == [valid |-> FALSE, t |-> Time(0, 0, 0, 0)]

ValidDate(t) == [valid |-> TRUE, t |-> t]

\* new Date(x) for a JSON value: a timestamp string, a date-only string
\* (UTC midnight), a number of milliseconds, or something unparseable
NewDate(x) ==
    CASE x.k = "timestamp" -> ValidDate(x.t)
      [] x.k = "string" ->
           LET d == ParseIsoDay(x.s)
           IN IF d = <<>> THEN InvalidDate ELSE ValidDate(Time(d[1], d[2], d[3], 0))
      [] x.k = "number" ->
           IF x.v.nan \/ x.v.n < 0 THEN InvalidDate
           ELSE ValidDate(Time(1970, 1, 1, (x.v.n \div x.v.d) \div 3600000))
      [] x.k = "null" -> ValidDate(Time(1970, 1, 1, 0))
      [] OTHER -> InvalidDate

\* x || fallback
OrElse(x, fallback) == IF JsTruthy(x) THEN x ELSE fallback

NullValue == [kind |-> "null"]

\* a validation that only requires the id
MissingFields_IdOnly(fields) == IF JsTruthy(fields.id) THEN {} ELSE {"id"}

\* _validateEventData's missingFields
MissingFields(fields) ==
    {requiredFields[i] : i \in {j \in 1..Len(requiredFields) : ~JsTruthy(fields[requiredFields[j]])}}

\* the object _validateEventData builds
CleanEvent(f) ==
    [id |-> JsNumber(f.id),
     name |-> JsonString(OrElse(f.name, JStr(S_UnnamedEvent))),
     short_description |-> JsonString(OrElse(f.short_description, JStr(<<>>))),
     date_time |-> NewDate(f.date_time),
     location |-> JsonString(f.location),
     category_id |-> JsNumber(OrElse(f.category_id, JNum(0, 1))),
     category_name |-> JsonString(OrElse(f.category_name, JStr(S_Uncategorized))),
     ticket_price |-> JsNumber(OrElse(f.ticket_price, JNum(0, 1))),
     goal_amount |-> JsNumber(OrElse(f.goal_amount, JNum(0, 1))),
     current_amount |-> JsNumber(OrElse(f.current_amount, JNum(0, 1))),
     is_active |-> JsTruthy(f.is_active)]

\* _validateEventData: an envelope, an array or null has none of the
\* required fields
ValidateEventData(x) ==
    IF x.kind # "object" THEN NullValue
    ELSE IF MissingFields(x.fields) # {} THEN NullValue
    ELSE [kind |-> "event", e |-> CleanEvent(x.fields)]

\* events.map(...).filter(Boolean)
RECURSIVE MapValidate(_)
MapValidate(items) ==
    IF items = <<>> THEN <<>>
    ELSE LET v == ValidateEventData(Head(items))
         IN (IF v = NullValue THEN <<>> ELSE <<v.e>>) \o MapValidate(Tail(items))

\* _validateEventsData
ValidateEventsData(body) ==
    IF body.kind # "array" THEN <<>> ELSE MapValidate(body.items)

\* _validateCategoriesData
ValidateCategoriesData(body) ==
    IF body.kind # "array" THEN <<>>
    ELSE LET objs == SelectSeq(body.items, LAMBDA c : c.kind = "object")
         IN [k \in 1..Len(objs) |->
                [id |-> JsNumber(objs[k].fields.id),
                 name |-> JsonString(OrElse(objs[k].fields.name, JStr(S_UnnamedCategory)))]]

(***************************************************************************)
(* Inputs                                                                  *)
(***************************************************************************)
\* ids handed to fetchEventById: missing, empty, text, 0, -1, 1.5, ids of
\* rows, the id of no row
IdInputs ==
    {Undefined, JStr(<<>>), JStr(<<"a", "b", "c">>), JNum(0, 1), JNum(0 - 1, 1),
     JNum(15, 10), JNum(1, 1), JNum(2, 1), JStr(<<"2">>), JNum(9, 1)}

DateInputs ==
    {Undefined, JStr(<<>>), JStr(<<"2", "0", "2", "5", "-", "0", "9", "-", "1", "5">>),
     JStr(<<"2", "0", "2", "5", "-", "1", "3", "-", "0", "1">>), JStr(<<"a", "b", "c">>)}

LocationInputs ==
    {Undefined, JStr(<<>>), JStr(<<" ", " ">>), JStr(<<" ", "p", "a", "r", "k", " ">>),
     JStr(<<"h", "a", "l", "l">>)}

CategoryInputs ==
    {Undefined, JStr(<<>>), JStr(<<"1">>), JStr(<<"-", "1">>), JStr(<<"1", ".", "5">>),
     JStr(<<"a", "b", "c">>), JStr(<<"0">>), JNum(2, 1)}

Filters(d, l, c) == [date |-> d, location |-> l, category |-> c]

\* filters handed to searchEvents: each criterion varied on its own, and
\* two combinations
FilterInputs ==
    {Filters(d, Undefined, Undefined) : d \in DateInputs}
    \cup {Filters(Undefined, l, Undefined) : l \in LocationInputs}
    \cup {Filters(Undefined, Undefined, c) : c \in CategoryInputs}
    \cup {Filters(JStr(<<"2", "0", "2", "5", "-", "0", "9", "-", "1", "5">>), JStr(<<" ", "p", "a", "r", "k", " ">>), JStr(<<"1">>)),
          Filters(JStr(<<"2", "0", "2", "5", "-", "0", "9", "-", "1", "5">>), Undefined, JNum(2, 1))}

NoArg == [id |-> Undefined, filters |-> Filters(Undefined, Undefined, Undefined)]

\* the time one HTTP attempt takes (ms)
Latencies == {0, 250}

(***************************************************************************)
(* The API client's methods                                                *)
(***************************************************************************)
\* _isValidDate
IsValidDate(x) == NewDate(x).valid

\* isNaN(Number(x))
IsNaNNumber(x) == JsNumber(x).nan

\* fetchEventById's guard: the ids that are refused before any request
InvalidId(id) == ~JsTruthy(id) \/ IsNaNNumber(id)

\* `/events/${id}`
EventEndpoint(id) == Request(<<S_events, JsString(id)>>, NoQuery)

\* searchEvents: which criterion goes into the query, and as what
DateParam(f) ==
    IF JsTruthy(f.date) /\ IsValidDate(f.date) THEN JStr(JsString(f.date)) ELSE Undefined

LocationParam(f) ==
    IF JsTruthy(f.location) /\ Trim(f.location.s) # <<>> THEN JStr(Trim(f.location.s))
    ELSE Undefined

CategoryParam(f) ==
    IF JsTruthy(f.category) /\ ~IsNaNNumber(f.category) THEN JStr(JsString(f.category))
    ELSE Undefined

\* '/events/search' with the query string, if any
SearchEndpoint(f) ==
    Request(<<S_events, S_search>>,
            [date |-> DateParam(f), location |-> LocationParam(f), category |-> CategoryParam(f)])

NoResult == [kind |-> "none"]

NoOutcome == [kind |-> "none", resp |-> Response(0, "none", ErrorBody)]

\* what the method does with the data of a successful request: the value
\* it resolves with, or the error its own code throws
Continue(o, data) ==
    CASE o = "fetchEvents" \/ o = "searchEvents" ->
           [ok |-> TRUE, value |-> [kind |-> "events", items |-> ValidateEventsData(data)],
            error |-> NoError]
      [] o = "fetchCategories" ->
           [ok |-> TRUE, value |-> [kind |-> "categories", items |-> ValidateCategoriesData(data)],
            error |-> NoError]
      [] o = "fetchEventById" ->
           LET v == ValidateEventData(data)
           IN IF v = NullValue
              THEN [ok |-> FALSE, value |-> NoResult, error |-> Err("TypeError", M_NullName)]
              ELSE [ok |-> TRUE, value |-> v, error |-> NoError]

Idle == pc = "idle" /\ psPc = "idle"

\* the first attempt of a call
Issue(o, a, req) ==
    /\ op' = o
    /\ arg' = a
    /\ endpoint' = req
    /\ pc' = "inflight"
    /\ retryCount' = 0
    /\ attempts' = 1
    /\ inflight' = 1
    /\ delays' = <<>>
    /\ now' = 0
    /\ issuedAt' = <<0>>
    /\ failedAt' = <<>>
    /\ last' = NoOutcome
    /\ result' = NoResult
    /\ error' = NoError
    /\ UNCHANGED <<dbVars, ctlVars, pageVars>>

FetchEvents ==
    /\ Idle
    /\ Issue("fetchEvents", NoArg, Request(<<S_events>>, NoQuery))

FetchCategories ==
    /\ Idle
    /\ Issue("fetchCategories", NoArg, Request(<<S_categories>>, NoQuery))

FetchEventById ==
    /\ Idle
    /\ \E id \in IdInputs :
          IF InvalidId(id)
          THEN /\ op' = "fetchEventById"
               /\ arg' = [NoArg EXCEPT !.id = id]
               /\ pc' = "rejected"
               /\ error' = Err("Error", M_InvalidId)
               /\ UNCHANGED <<endpoint, retryCount, attempts, inflight, delays, now,
                              issuedAt, failedAt, last, result, dbVars, ctlVars, pageVars>>
          ELSE Issue("fetchEventById", [NoArg EXCEPT !.id = id], EventEndpoint(id))

SearchEvents ==
    /\ Idle
    /\ \E f \in FilterInputs :
          Issue("searchEvents", [NoArg EXCEPT !.filters = f], SearchEndpoint(f))

\* an attempt comes back with a response that is ok: _makeRequest returns
\* its body and the method finishes
AttemptSucceeds ==
    /\ pc = "inflight"
    /\ \E lat \in Latencies, out \in FetchOutcomes(endpoint) :
          LET mr == MakeRequest(out)
              c == Continue(op, mr.data)
          IN /\ mr.ok
             /\ now' = now + lat
             /\ last' = out
             /\ inflight' = inflight - 1
             /\ IF c.ok
                THEN pc' = "resolved" /\ result' = c.value /\ error' = NoError
                ELSE pc' = "rejected" /\ result' = NoResult /\ error' = c.error
    /\ UNCHANGED <<op, arg, endpoint, retryCount, attempts, delays, issuedAt, failedAt,
                   dbVars, ctlVars, pageVars>>

\* an attempt fails: _makeRequestWithRetry's catch either goes to sleep
\* before the next attempt or rethrows
AttemptFails ==
    /\ pc = "inflight"
    /\ \E lat \in Latencies, out \in FetchOutcomes(endpoint) :
          LET mr == MakeRequest(out)
          IN /\ ~mr.ok
             /\ now' = now + lat
             /\ last' = out
             /\ inflight' = inflight - 1
             /\ failedAt' = Append(failedAt, now + lat)
             /\ IF WillRetry(mr.error, retryCount)
                THEN /\ pc' = "sleeping"
                     /\ delays' = Append(delays, RetryDelay(retryCount))
                     /\ error' = NoError
                ELSE /\ pc' = "rejected"
                     /\ delays' = delays
                     /\ error' = mr.error
    /\ UNCHANGED <<op, arg, endpoint, retryCount, attempts, issuedAt, result,
                   dbVars, ctlVars, pageVars>>

\* _sleep's timer fires: the next attempt is issued
RetryTimerFires ==
    /\ pc = "sleeping"
    /\ pc' = "inflight"
    /\ now' = now + delays[Len(delays)]
    /\ retryCount' = retryCount + 1
    /\ attempts' = attempts + 1
    /\ inflight' = inflight + 1
    /\ issuedAt' = Append(issuedAt, now + delays[Len(delays)])
    /\ UNCHANGED <<op, arg, endpoint, delays, failedAt, last, result, error,
                   dbVars, ctlVars, pageVars>>

\* the page controller awaiting the call takes what it resolved with:
\* state.events, state.searchResults or state.event
Deliver ==
    /\ pc \in {"resolved", "rejected"}
    /\ pc' = "delivered"
    /\ held' = CASE pc = "resolved" /\ result.kind = "events" -> result.items
                 [] pc = "resolved" /\ result.kind = "event" -> <<result.e>>
                 [] OTHER -> held
    /\ UNCHANGED <<op, arg, endpoint, retryCount, attempts, inflight, delays, now,
                   issuedAt, failedAt, last, result, error, dbVars, ctlVars, displayed, psPc, psFilters>>

(***************************************************************************)
(* The search script: performSearch and its client-side fallback           *)
(***************************************************************************)
\* the values of the search form: date, location and category inputs
ScriptFilterInputs ==
    {Filters(JStr(d), JStr(l), JStr(c)) :
        d \in {<<>>, <<"2", "0", "2", "5", "-", "0", "9", "-", "1", "5">>},
        l \in {<<>>, <<"p", "a", "r", "k">>},
        c \in {<<>>, <<"1">>}}
    \cup {Filters(JStr(<<"2", "0", "2", "5", "-", "0", "9", "-", "1", "9">>), JStr(<<>>), JStr(<<>>)),
          Filters(JStr(<<>>), JStr(<<"H", "A", "L", "L">>), JStr(<<"2">>)),
          Filters(JStr(<<>>), JStr(<<>>), JStr(<<"9">>))}

\* the URL performSearch builds: a criterion is appended when it is truthy
ScriptSearchRequest(f) ==
    Request(<<S_events, S_search>>,
            [date |-> IF JsTruthy(f.date) THEN f.date ELSE Undefined,
             location |-> IF JsTruthy(f.location) THEN f.location ELSE Undefined,
             category |-> IF JsTruthy(f.category) THEN f.category ELSE Undefined])

\* data.data || data || []
Extract(body) == IF body.kind = "envelope" THEN body.data ELSE body

\* s.split('T')[0]
RECURSIVE BeforeT(_)
BeforeT(s) ==
    IF s = <<>> \/ Head(s) = "T" THEN <<>> ELSE <<Head(s)>> \o BeforeT(Tail(s))

\* new Date(event.date_time).toISOString().split('T')[0]
EventDate(ev) == BeforeT(IsoString(NewDate(ev.date_time).t))

\* the predicate of performClientSideSearch's filter
ClientMatches(ev, f) ==
    /\ JsTruthy(f.date) => EventDate(ev) = f.date.s
    /\ JsTruthy(f.location) =>
          \/ Includes(ToLowerCase(ev.location.s), ToLowerCase(f.location.s))
          \/ Includes(ToLowerCase(ev.name.s), ToLowerCase(f.location.s))
    /\ JsTruthy(f.category) => NumEq(JsNumber(ev.category_id), JsNumber(f.category))

\* a filter that also drops the first of the events it should keep
ClientFilter_DropsFirst(items, f) ==
    LET kept == SelectSeq(items, LAMBDA x : ClientMatches(x.fields, f))
    IN IF kept = <<>> THEN kept ELSE Tail(kept)

\* allEvents.filter(...)
ClientFilter(items, f) == SelectSeq(items, LAMBDA x : ClientMatches(x.fields, f))

\* toISOString throws on an invalid date and the whole fallback fails
FilterThrows(items, f) ==
    JsTruthy(f.date) /\ \E k \in 1..Len(items) : ~NewDate(items[k].fields.date_time).valid

PerformSearch ==
    /\ Idle
    /\ \E f \in ScriptFilterInputs :
          /\ psFilters' = f
          /\ psPc' = "search"
    /\ UNCHANGED <<dbVars, ctlVars, apiVars, held, displayed>>

\* the request to the search endpoint settles: its results are shown, or
\* the catch block starts the fallback
PsSearchSettles ==
    /\ psPc = "search"
    /\ \E out \in FetchOutcomes(ScriptSearchRequest(psFilters)) :
          IF out.kind = "response" /\ Ok(out.resp) /\ Extract(out.resp.body).kind = "array"
          THEN /\ displayed' = Extract(out.resp.body).items
               /\ psPc' = "shown"
          ELSE /\ displayed' = displayed
               /\ psPc' = "fallback"
    /\ UNCHANGED <<dbVars, ctlVars, apiVars, held, psFilters>>

\* the fallback's request for the full list settles
PsFallbackSettles ==
    /\ psPc = "fallback"
    /\ \E out \in FetchOutcomes(Request(<<S_events>>, NoQuery)) :
          IF /\ out.kind = "response" /\ Ok(out.resp)
             /\ Extract(out.resp.body).kind = "array"
             /\ ~FilterThrows(Extract(out.resp.body).items, psFilters)
          THEN /\ displayed' = ClientFilter(Extract(out.resp.body).items, psFilters)
               /\ psPc' = "shown"
          ELSE /\ displayed' = displayed
               /\ psPc' = "error"
    /\ UNCHANGED <<dbVars, ctlVars, apiVars, held, psFilters>>

(***************************************************************************)
(* The page controllers as their constructors leave them                   *)
(***************************************************************************)
S_date == <<"d", "a", "t", "e">>
S_name == <<"n", "a", "m", "e">>
S_location == <<"l", "o", "c", "a", "t", "i", "o", "n">>
S_price == <<"p", "r", "i", "c", "e">>
S_relevance == <<"r", "e", "l", "e", "v", "a", "n", "c", "e">>
S_asc == <<"a", "s", "c">>
S_desc == <<"d", "e", "s", "c">>

\* HomePage's constructor: this.api and this.state
HomeState0 ==
    [api |-> windowApi, events |-> <<>>, filteredEvents |-> <<>>, isLoading |-> TRUE,
     hasError |-> FALSE, searchQuery |-> <<>>, sortBy |-> S_date, sortOrder |-> S_asc,
     currentView |-> "grid"]

\* the home page as it is served: the loading indicator shows, the other
\* panels are hidden; cached: this.elements holds the panels; view: the
\* mode the events were rendered in
HomeDom0 ==
    [cached |-> FALSE, loadingState |-> TRUE, errorState |-> FALSE, emptyState |-> FALSE,
     eventsContainer |-> FALSE, rendered |-> <<>>, initError |-> FALSE, view |-> "none"]

NoHandler == [event |-> "none", fetched |-> <<>>, sorts |-> FALSE]

\* SearchPage's constructor: this.state
NoFilters == Filters(JStr(<<>>), JStr(<<>>), JStr(<<>>))

SearchState0 ==
    [searchResults |-> <<>>, filteredEvents |-> <<>>, isSearching |-> FALSE,
     hasSearched |-> FALSE, hasError |-> FALSE, currentFilters |-> NoFilters,
     searchQuery |-> <<>>, sortBy |-> S_relevance, sortOrder |-> S_desc,
     categories |-> <<>>, isLoading |-> FALSE]

\* the results summary with the text ''
NoSummary == [set |-> FALSE, count |-> 0, about |-> <<>>]

\* the search page as it is served: summary: the text of the results
\* summary; message: the filters the no-results message names; term: the
\* term highlighted in the cards
SearchDom0 ==
    [searchError |-> FALSE, noResults |-> FALSE, resultsContainer |-> FALSE, rendered |-> <<>>,
     summary |-> NoSummary, message |-> <<>>, term |-> <<>>]

\* criteria: the object _saveSearchState builds
Criteria(st) ==
    [filters |-> st.currentFilters, searchQuery |-> st.searchQuery,
     sortBy |-> st.sortBy, sortOrder |-> st.sortOrder]

NoSearchHandler ==
    [event |-> "none", requested |-> FALSE, search |-> "none", list |-> "none",
     saved |-> Criteria(SearchState0), expected |-> <<>>]

NoItem == [present |-> FALSE, text |-> <<>>]

NoHistory == [memory |-> <<>>, item |-> NoItem, clock |-> 0, log |-> <<>>, restored |-> FALSE]

\* the details hold no progress bar
NoProgress == [bar |-> FALSE, pct |-> 0]

EventState0 ==
    [pc |-> "new", destroyed |-> FALSE, listening |-> FALSE, cached |-> FALSE,
     event |-> NullValue, isLoading |-> TRUE, hasError |-> FALSE, errorMessage |-> <<>>,
     isModalOpen |-> FALSE, currentEventId |-> JNull, progressInterval |-> 0,
     registerButton |-> FALSE, buttonLive |-> FALSE]

\* the document of the event page, before any script has changed it
EventDom0(css) ==
    [loading |-> TRUE, error |-> FALSE, details |-> FALSE, errorText |-> "",
     overflow |-> "", modalHidden |-> TRUE, focus |-> "body", hiddenTakesFocus |-> css,
     progress |-> NoProgress]

EventEnv0(p) ==
    [url |-> p, loads |-> <<>>, timers |-> {}, focusTimers |-> 0, nextTimer |-> 1,
     fetches |-> 0, ticks |-> 0, lateTick |-> FALSE, tabbed |-> FALSE, closed |-> FALSE,
     escapeIgnored |-> FALSE, goalWithdrawn |-> FALSE]

Nav0(m) == [isMobileMenuOpen |-> FALSE, mobile |-> m, destroyed |-> FALSE]

\* no rendering or filtering on its own has been done
NoCalc == [fn |-> "none"]

\* the parts of the pages that are not running
RestIdle ==
    /\ calc = NoCalc
    /\ hist = NoHistory
    /\ evp = EventState0
    /\ evDom = EventDom0(FALSE)
    /\ evEnv = EventEnv0(JNull)
    /\ nav = Nav0(FALSE)

NoSorting ==
    [events |-> <<>>, sortBy |-> S_date, done |-> FALSE,
     homeAsc |-> <<>>, homeDesc |-> <<>>, searchAsc |-> <<>>, searchDesc |-> <<>>]

HomeIdle ==
    /\ windowApi = TRUE
    /\ homePc = "new"
    /\ homeWaited = 0
    /\ home = HomeState0
    /\ homeDom = HomeDom0
    /\ homeLoads = 0
    /\ homeLast = NoHandler

SearchPageIdle ==
    /\ sp = SearchState0
    /\ spDom = SearchDom0
    /\ storage = NoItem
    /\ spPending = <<>>
    /\ spLast = NoSearchHandler

\* no page controller is running
CtlIdle == HomeIdle /\ SearchPageIdle /\ sorting = NoSorting /\ RestIdle

(***************************************************************************)
(* Specification                                                           *)
(***************************************************************************)
ApiInit ==
    /\ op = "none"
    /\ arg = NoArg
    /\ pc = "idle"
    /\ endpoint = Request(<<>>, NoQuery)
    /\ retryCount = 0
    /\ attempts = 0
    /\ inflight = 0
    /\ delays = <<>>
    /\ now = 0
    /\ issuedAt = <<>>
    /\ failedAt = <<>>
    /\ last = NoOutcome
    /\ result = NoResult
    /\ error = NoError

PageInit ==
    /\ held = <<>>
    /\ displayed = <<>>
    /\ psPc = "idle"
    /\ psFilters = Filters(Undefined, Undefined, Undefined)

Init ==
    /\ active \in [EventIds -> ActiveValues]
    /\ tz \in TzOffsets
    /\ envelope \in BOOLEAN
    /\ ApiInit
    /\ PageInit
    /\ CtlIdle

\* the page is left: its controller and every pending promise are dropped
Unload ==
    /\ pc = "delivered" \/ psPc \in {"shown", "error"}
    /\ op' = "none"
    /\ arg' = NoArg
    /\ pc' = "idle"
    /\ endpoint' = Request(<<>>, NoQuery)
    /\ retryCount' = 0
    /\ attempts' = 0
    /\ inflight' = 0
    /\ delays' = <<>>
    /\ now' = 0
    /\ issuedAt' = <<>>
    /\ failedAt' = <<>>
    /\ last' = NoOutcome
    /\ result' = NoResult
    /\ error' = NoError
    /\ held' = <<>>
    /\ displayed' = <<>>
    /\ psPc' = "idle"
    /\ psFilters' = Filters(Undefined, Undefined, Undefined)
    /\ UNCHANGED <<dbVars, ctlVars>>

Next ==
    \/ FetchEvents
    \/ FetchCategories
    \/ FetchEventById
    \/ SearchEvents
    \/ AttemptSucceeds
    \/ AttemptFails
    \/ RetryTimerFires
    \/ Deliver
    \/ PerformSearch
    \/ PsSearchSettles
    \/ PsFallbackSettles
    \/ Unload

Spec == Init /\ [][Next]_vars

(***************************************************************************)
(* Record validation on its own: a response carrying any list of records   *)
(* is received and the client's code is applied to it.                     *)
(***************************************************************************)
BaseRecord ==
    [id |-> JNum(7, 1), name |-> JStr(S_Run), short_description |-> Undefined,
     date_time |-> JTime(Time(2025, 9, 15, 0)), location |-> JStr(S_Hall),
     category_id |-> JNum(1, 1), category_name |-> JStr(S_FunRun),
     ticket_price |-> JStr(<<"5", ".", "0", "0">>), goal_amount |-> Undefined,
     current_amount |-> Undefined, is_active |-> JNum(1, 1)]

\* records as they can arrive: complete, or with a field absent, null,
\* empty or zero
ReceivedRecords ==
    {BaseRecord}
    \cup {[BaseRecord EXCEPT !.id = v] : v \in {Undefined, JNull, JNum(0, 1), JStr(<<"8">>)}}
    \cup {[BaseRecord EXCEPT !.name = v] : v \in {Undefined, JStr(<<>>)}}
    \cup {[BaseRecord EXCEPT !.date_time = v] : v \in {Undefined, JNull, JStr(<<"a", "b", "c">>)}}
    \cup {[BaseRecord EXCEPT !.location = v] : v \in {Undefined, JStr(<<>>)}}
    \cup {[BaseRecord EXCEPT !.category_name = v] : v \in {Undefined, JNull}}
    \cup {[BaseRecord EXCEPT !.name = Undefined, !.location = Undefined, !.category_name = Undefined]}

ReceivedItems == {ObjectBody(r) : r \in ReceivedRecords} \cup {NullValue}

ReceivedLists == UNION {[1..n -> ReceivedItems] : n \in 0..MaxReceived}

InitValidate ==
    /\ active = [i \in EventIds |-> "TRUE"]
    /\ tz = 0
    /\ envelope = FALSE
    /\ op \in {"fetchEvents", "searchEvents"}
    /\ arg = NoArg
    /\ pc = "inflight"
    /\ endpoint = IF op = "fetchEvents" THEN Request(<<S_events>>, NoQuery)
                  ELSE Request(<<S_events, S_search>>, NoQuery)
    /\ retryCount = 0
    /\ attempts = 1
    /\ inflight = 1
    /\ delays = <<>>
    /\ now = 0
    /\ issuedAt = <<0>>
    /\ failedAt = <<>>
    /\ \E items \in ReceivedLists :
          last = [kind |-> "response", resp |-> Response(200, "listEvents", ArrayBody(items))]
    /\ result = NoResult
    /\ error = NoError
    /\ PageInit
    /\ CtlIdle

\* the response is read: _makeRequest returns its body and the method
\* validates it
ValidateReceived ==
    /\ pc = "inflight"
    /\ LET mr == MakeRequest(last)
           c == Continue(op, mr.data)
       IN /\ mr.ok /\ c.ok
          /\ pc' = "resolved"
          /\ result' = c.value
          /\ inflight' = 0
    /\ UNCHANGED <<op, arg, endpoint, retryCount, attempts, delays, now, issuedAt,
                   failedAt, last, error, dbVars, ctlVars, pageVars>>

NextValidate == ValidateReceived \/ Deliver

SpecValidate == InitValidate /\ [][NextValidate]_vars

(***************************************************************************)
(* Sorting: the comparator of HomePage._filterAndSortEvents and            *)
(* SearchPage._sortEvents, and Array.prototype.sort                        *)
(***************************************************************************)
\* longest list sorted on its own
MaxSortLen == 3

\* the characters of the model in the order of their UTF-16 code units
CodeOrder ==
    <<" ", "\"", "-", ".", "0", "1", "2", "3", "4", "5", "6", "7", "8", "9", ":",
      "A", "B", "C", "D", "E", "F", "G", "H", "I", "J", "K", "L", "M",
      "N", "O", "P", "Q", "R", "S", "T", "U", "V", "W", "X", "Y", "Z", "\\", "_",
      "a", "b", "c", "d", "e", "f", "g", "h", "i", "j", "k", "l", "m",
      "n", "o", "p", "q", "r", "s", "t", "u", "v", "w", "x", "y", "z", "{", "}">>

CharCode(c) == CHOOSE i \in 1..Len(CodeOrder) : CodeOrder[i] = c

\* a < b on strings: by code units, a proper prefix first
RECURSIVE StrLess(_, _)
StrLess(a, b) ==
    IF b = <<>> THEN FALSE
    ELSE IF a = <<>> THEN TRUE
    ELSE IF Head(a) = Head(b) THEN StrLess(Tail(a), Tail(b))
    ELSE CharCode(Head(a)) < CharCode(Head(b))

\* a < b on numbers: false when either is NaN
NumLess(x, y) == ~x.nan /\ ~y.nan /\ x.n * y.d < y.n * x.d

\* a < b on Date objects: by time value, false when either is invalid
DateLess(a, b) == a.valid /\ b.valid /\ TimeLess(a.t, b.t)

\* the switch on this.state.sortBy: the value an event is compared by
SortValue(e, sortBy) ==
    CASE sortBy = S_name -> [k |-> "string", s |-> ToLowerCase(e.name)]
      [] sortBy = S_location -> [k |-> "string", s |-> ToLowerCase(e.location)]
      [] sortBy = S_price -> [k |-> "number", v |-> e.ticket_price]
      [] OTHER -> [k |-> "date", d |-> e.date_time]

\* aValue < bValue
ValueLess(a, b) ==
    CASE a.k = "string" -> StrLess(a.s, b.s)
      [] a.k = "number" -> NumLess(a.v, b.v)
      [] OTHER -> DateLess(a.d, b.d)

\* a comparator that ignores the direction
Compare_Ascending(a, b, sortBy, sortOrder) ==
    LET av == SortValue(a, sortBy)
        bv == SortValue(b, sortBy)
    IN IF ValueLess(av, bv) THEN 0 - 1 ELSE IF ValueLess(bv, av) THEN 1 ELSE 0

\* the comparator handed to sort
Compare(a, b, sortBy, sortOrder) ==
    LET x == SortValue(a, sortBy)
        y == SortValue(b, sortBy)
        av == IF sortOrder = S_desc THEN y ELSE x
        bv == IF sortOrder = S_desc THEN x ELSE y
    IN IF ValueLess(av, bv) THEN 0 - 1 ELSE IF ValueLess(bv, av) THEN 1 ELSE 0

\* Array.prototype.sort is stable: an element goes behind everything that
\* does not compare greater than it
RECURSIVE InsertSorted(_, _, _, _)
InsertSorted(x, s, sortBy, sortOrder) ==
    IF s = <<>> THEN <<x>>
    ELSE IF Compare(x, s[Len(s)], sortBy, sortOrder) < 0
         THEN InsertSorted(x, SubSeq(s, 1, Len(s) - 1), sortBy, sortOrder) \o <<s[Len(s)]>>
         ELSE s \o <<x>>

RECURSIVE ArraySort(_, _, _)
ArraySort(list, sortBy, sortOrder) ==
    IF list = <<>> THEN <<>>
    ELSE InsertSorted(list[Len(list)],
                      ArraySort(SubSeq(list, 1, Len(list) - 1), sortBy, sortOrder),
                      sortBy, sortOrder)

\* SearchPage._sortEvents: a sorted copy
SortEvents(events, sortBy, sortOrder) == ArraySort(events, sortBy, sortOrder)

\* event.x.toLowerCase().includes(query) over the four fields
HomeMatches_NameOnly(e, query) == Includes(ToLowerCase(e.name), query)

HomeMatches(e, query) ==
    \/ Includes(ToLowerCase(e.name), query)
    \/ Includes(ToLowerCase(e.location), query)
    \/ Includes(ToLowerCase(e.short_description), query)
    \/ Includes(ToLowerCase(e.category_name), query)

\* HomePage._filterAndSortEvents: the list it returns, and the array it was
\* handed afterwards (sort works in place, and without a query `filtered`
\* is that very array)
FilterAndSortEvents(events, st) ==
    LET filtered == IF st.searchQuery # <<>>
                    THEN SelectSeq(events, LAMBDA e : HomeMatches(e, ToLowerCase(st.searchQuery)))
                    ELSE events
        sorted == ArraySort(filtered, st.sortBy, st.sortOrder)
    IN [result |-> sorted, events |-> IF st.searchQuery # <<>> THEN events ELSE sorted]

\* validated events with ties on every key
SampleEvent(id, name, location, price, t) ==
    [CleanEvent(BaseRecord) EXCEPT !.id = Num(id, 1), !.name = name, !.location = location,
                                   !.ticket_price = Num(price, 1), !.date_time = ValidDate(t)]

SortInputs ==
    {SampleEvent(1, S_Run, S_CityPark, 25, Time(2025, 9, 15, 10)),
     SampleEvent(2, S_ParkWalk, S_Hall, 0, Time(2025, 9, 20, 8)),
     SampleEvent(3, S_Gala, S_Beach, 0, Time(2025, 9, 15, 19)),
     SampleEvent(4, <<"r", "u", "n">>, S_Hall, 5, Time(2025, 9, 15, 10))}

SortLists == UNION {[1..n -> SortInputs] : n \in 0..MaxSortLen}

\* the keys of the sort controls, and the search page's default
SortKeys == {S_date, S_name, S_location, S_price, S_relevance}

InitSort ==
    /\ active = [i \in EventIds |-> "TRUE"]
    /\ tz = 0
    /\ envelope = FALSE
    /\ ApiInit
    /\ PageInit
    /\ HomeIdle
    /\ SearchPageIdle
    /\ RestIdle
    /\ \E l \in SortLists, k \in SortKeys : sorting = [NoSorting EXCEPT !.events = l, !.sortBy = k]

\* the list is sorted by both controllers, in both directions
SortBothWays ==
    /\ ~sorting.done
    /\ LET st(o) == [HomeState0 EXCEPT !.sortBy = sorting.sortBy, !.sortOrder = o]
       IN sorting' = [sorting EXCEPT
              !.done = TRUE,
              !.homeAsc = FilterAndSortEvents(sorting.events, st(S_asc)).result,
              !.homeDesc = FilterAndSortEvents(sorting.events, st(S_desc)).result,
              !.searchAsc = SortEvents(sorting.events, sorting.sortBy, S_asc),
              !.searchDesc = SortEvents(sorting.events, sorting.sortBy, S_desc)]
    /\ UNCHANGED <<dbVars, apiVars, pageVars, homeVars, searchPageVars, restVars>>

NextSort == SortBothWays

SpecSort == InitSort /\ [][NextSort]_vars

(***************************************************************************)
(* The home page: class HomePage                                           *)
(***************************************************************************)
\* _loadInitialData calls that can be awaiting their data at once
MaxLoads == 2

\* _waitForDependencies
maxWaitTime == 5000

pollInterval == 100

\* s.split(c)[0] and s.split(c)[1]
RECURSIVE SplitFirst(_, _)
SplitFirst(s, c) ==
    IF s = <<>> \/ Head(s) = c THEN <<>> ELSE <<Head(s)>> \o SplitFirst(Tail(s), c)

SplitSecond(s, c) ==
    LET n == Len(SplitFirst(s, c))
    IN IF n >= Len(s) THEN <<>> ELSE SplitFirst(SubSeq(s, n + 2, Len(s)), c)

\* the options _renderSortControls offers
HomeSortOptions ==
    {k \o <<"_">> \o o : k \in {S_date, S_name, S_location, S_price}, o \in {S_asc, S_desc}}

\* what the user types into the search input
QueryInputs ==
    {<<>>, <<"p", "a", "r", "k">>, <<"D", "I", "N">>, <<"5", "K">>, <<"z", "z">>,
     <<" ", "h", "a", "l", "l", " ">>}

\* what api.fetchEvents() resolves with when its request succeeds
FetchedEvents ==
    Continue("fetchEvents",
             MakeRequest([kind |-> "response",
                          resp |-> Serve(Request(<<S_events>>, NoQuery), FALSE)]).data).value.items

\* _showLoadingState without its three hideElement calls
ShowLoadingState_ShowOnly(dom) == [dom EXCEPT !.loadingState = TRUE]

\* _showLoadingState
ShowLoadingState(dom) ==
    [dom EXCEPT !.loadingState = TRUE, !.errorState = FALSE, !.emptyState = FALSE,
                !.eventsContainer = FALSE]

\* _showErrorState, and the panels of _handleDataLoadError
ShowErrorState(dom) ==
    [dom EXCEPT !.loadingState = FALSE, !.errorState = TRUE, !.emptyState = FALSE,
                !.eventsContainer = FALSE]

\* _showEmptyState
ShowEmptyState(dom) ==
    [dom EXCEPT !.loadingState = FALSE, !.errorState = FALSE, !.emptyState = TRUE,
                !.eventsContainer = FALSE]

\* _renderEvents
RenderEvents(dom, st) == [dom EXCEPT !.rendered = st.filteredEvents, !.view = st.currentView]

\* _renderDynamicContent
RenderDynamicContent(dom, st) ==
    IF st.hasError THEN ShowErrorState(dom)
    ELSE IF st.filteredEvents = <<>> THEN ShowEmptyState(dom)
    ELSE [RenderEvents(dom, st) EXCEPT !.loadingState = FALSE, !.errorState = FALSE,
                                       !.emptyState = FALSE, !.eventsContainer = TRUE]

\* this.state.filteredEvents = this._filterAndSortEvents(this.state.events)
Refiltered(st) ==
    LET r == FilterAndSortEvents(st.events, st)
    IN [st EXCEPT !.filteredEvents = r.result, !.events = r.events]

\* the script that defines window.charityEventsAPI has run
ApiScriptLoads ==
    /\ ~windowApi
    /\ windowApi' = TRUE
    /\ UNCHANGED <<homePc, homeWaited, home, homeDom, homeLoads, homeLast>>
    /\ UNCHANGED <<dbVars, apiVars, pageVars, searchPageVars, sorting, restVars>>

\* DOMContentLoaded: init() enters _waitForDependencies
HomeInit ==
    /\ homePc = "new"
    /\ homePc' = "waiting"
    /\ homeWaited' = 0
    /\ UNCHANGED <<windowApi, home, homeDom, homeLoads, homeLast>>
    /\ UNCHANGED <<dbVars, apiVars, pageVars, searchPageVars, sorting, restVars>>

\* one turn of the loop that waits for the API client
HomeWaitTick ==
    /\ homePc = "waiting"
    /\ ~home.api /\ homeWaited < maxWaitTime
    /\ homeWaited' = homeWaited + pollInterval
    /\ home' = [home EXCEPT !.api = windowApi]
    /\ UNCHANGED <<windowApi, homePc, homeDom, homeLoads, homeLast>>
    /\ UNCHANGED <<dbVars, apiVars, pageVars, searchPageVars, sorting, restVars>>

\* the wait gave up: init's catch runs _handleInitializationError, which
\* writes its panel only into a cached events container
HomeInitFails ==
    /\ homePc = "waiting"
    /\ ~home.api /\ homeWaited >= maxWaitTime
    /\ homePc' = "failed"
    /\ homeDom' = [homeDom EXCEPT !.initError = homeDom.cached]
    /\ homeLast' = [homeLast EXCEPT !.event = "initFailed"]
    /\ UNCHANGED <<windowApi, homeWaited, home, homeLoads>>
    /\ UNCHANGED <<dbVars, apiVars, pageVars, searchPageVars, sorting, restVars>>

\* _loadInitialData up to its await
StartLoad ==
    /\ homeLoads < MaxLoads
    /\ homeLoads' = homeLoads + 1
    /\ home' = [home EXCEPT !.isLoading = TRUE, !.hasError = FALSE]
    /\ homeDom' = [ShowLoadingState(homeDom) EXCEPT !.cached = TRUE]
    /\ homeLast' = [homeLast EXCEPT !.event = "loadStart"]

\* the API client is there: _waitForDependencies returns (its startTime is
\* gone), init caches the elements, adds the listeners and starts the first
\* load
HomeInitLoads ==
    /\ homePc = "waiting"
    /\ home.api
    /\ homePc' = "ready"
    /\ homeWaited' = 0
    /\ StartLoad
    /\ UNCHANGED windowApi
    /\ UNCHANGED <<dbVars, apiVars, pageVars, searchPageVars, sorting, restVars>>

\* _handleRetry: the retry button is in the error panel
HomeRetry ==
    /\ homePc = "ready"
    /\ homeDom.errorState
    /\ StartLoad
    /\ UNCHANGED <<windowApi, homePc, homeWaited>>
    /\ UNCHANGED <<dbVars, apiVars, pageVars, searchPageVars, sorting, restVars>>

\* _handleRefresh: 'homepage:refresh' is dispatched on the document
HomeRefresh ==
    /\ homePc = "ready"
    /\ StartLoad
    /\ UNCHANGED <<windowApi, homePc, homeWaited>>
    /\ UNCHANGED <<dbVars, apiVars, pageVars, searchPageVars, sorting, restVars>>

\* both requests of a load succeeded: the rest of _loadInitialData's try
HomeLoadSucceeds ==
    /\ homeLoads > 0
    /\ homeLoads' = homeLoads - 1
    /\ LET st == Refiltered([home EXCEPT !.events = FetchedEvents, !.isLoading = FALSE])
       IN /\ home' = st
          /\ homeDom' = RenderDynamicContent(homeDom, st)
    /\ homeLast' = [homeLast EXCEPT !.event = "loadOk", !.fetched = FetchedEvents]
    /\ UNCHANGED <<windowApi, homePc, homeWaited>>
    /\ UNCHANGED <<dbVars, apiVars, pageVars, searchPageVars, sorting, restVars>>

\* a request of a load failed: _handleDataLoadError
HomeLoadFails ==
    /\ homeLoads > 0
    /\ homeLoads' = homeLoads - 1
    /\ home' = [home EXCEPT !.isLoading = FALSE, !.hasError = TRUE]
    /\ homeDom' = ShowErrorState(homeDom)
    /\ homeLast' = [homeLast EXCEPT !.event = "loadFail"]
    /\ UNCHANGED <<windowApi, homePc, homeWaited>>
    /\ UNCHANGED <<dbVars, apiVars, pageVars, searchPageVars, sorting, restVars>>

\* _handleSearch
HomeSearch ==
    /\ homePc = "ready"
    /\ \E q \in QueryInputs :
          LET st == Refiltered([home EXCEPT !.searchQuery = Trim(q)])
          IN /\ home' = st
             /\ homeDom' = RenderDynamicContent(homeDom, st)
    /\ homeLast' = [homeLast EXCEPT !.event = "search"]
    /\ UNCHANGED <<windowApi, homePc, homeWaited, homeLoads>>
    /\ UNCHANGED <<dbVars, apiVars, pageVars, searchPageVars, sorting, restVars>>

\* _clearSearch: its button is in the controls of a rendered list
HomeClearSearch ==
    /\ homePc = "ready"
    /\ homeDom.eventsContainer
    /\ LET st == Refiltered([home EXCEPT !.searchQuery = <<>>])
       IN /\ home' = st
          /\ homeDom' = RenderDynamicContent(homeDom, st)
    /\ homeLast' = [homeLast EXCEPT !.event = "clear"]
    /\ UNCHANGED <<windowApi, homePc, homeWaited, homeLoads>>
    /\ UNCHANGED <<dbVars, apiVars, pageVars, searchPageVars, sorting, restVars>>

\* _handleSortChange
HomeSortChange ==
    /\ homePc = "ready"
    /\ \E v \in HomeSortOptions :
          LET st == Refiltered([home EXCEPT !.sortBy = SplitFirst(v, "_"),
                                            !.sortOrder = SplitSecond(v, "_")])
          IN /\ home' = st
             /\ homeDom' = RenderEvents(homeDom, st)
    /\ homeLast' = [homeLast EXCEPT !.event = "sort", !.sorts = TRUE]
    /\ UNCHANGED <<windowApi, homePc, homeWaited, homeLoads>>
    /\ UNCHANGED <<dbVars, apiVars, pageVars, searchPageVars, sorting, restVars>>

\* the home page is requested; the API client's script may be missing
InitHome ==
    /\ active = [i \in EventIds |-> "TRUE"]
    /\ tz = 0
    /\ envelope \in BOOLEAN
    /\ ApiInit
    /\ PageInit
    /\ windowApi \in BOOLEAN
    /\ homePc = "new"
    /\ homeWaited = 0
    /\ home = HomeState0
    /\ homeDom = HomeDom0
    /\ homeLoads = 0
    /\ homeLast = NoHandler
    /\ SearchPageIdle
    /\ sorting = NoSorting
    /\ RestIdle

NextHome ==
    \/ ApiScriptLoads
    \/ HomeInit
    \/ HomeWaitTick
    \/ HomeInitFails
    \/ HomeInitLoads
    \/ HomeRetry
    \/ HomeRefresh
    \/ HomeLoadSucceeds
    \/ HomeLoadFails
    \/ HomeSearch
    \/ HomeClearSearch
    \/ HomeSortChange

SpecHome == InitHome /\ [][NextHome]_vars

\* every load settles: Promise.all of the two API calls resolves or
\* rejects, each call ending after its bounded retries
SpecHomeFair == SpecHome /\ WF_vars(HomeLoadFails \/ HomeLoadSucceeds)

(***************************************************************************)
(* Local storage: StorageManager, JSON.stringify and JSON.parse            *)
(***************************************************************************)
S_filters == <<"f", "i", "l", "t", "e", "r", "s">>
S_searchQuery == <<"s", "e", "a", "r", "c", "h", "Q", "u", "e", "r", "y">>
S_sortBy == <<"s", "o", "r", "t", "B", "y">>
S_sortOrder == <<"s", "o", "r", "t", "O", "r", "d", "e", "r">>
S_category == <<"c", "a", "t", "e", "g", "o", "r", "y">>

\* a string literal without escapes
JsonQuote_Raw(s) == <<"\"">> \o s \o <<"\"">>

RECURSIVE JsonEscape(_)
JsonEscape(s) ==
    IF s = <<>> THEN <<>>
    ELSE (IF Head(s) = "\"" \/ Head(s) = "\\" THEN <<"\\", Head(s)>> ELSE <<Head(s)>>)
         \o JsonEscape(Tail(s))

\* JSON.stringify of a string
JsonQuote(s) == <<"\"">> \o JsonEscape(s) \o <<"\"">>

\* a property of an object being written: JSON.stringify leaves out the
\* properties whose value is undefined
JsonProperty(key, x) ==
    [present |-> x.k # "undefined", text |-> JsonQuote(key) \o <<":">> \o JsonQuote(x.s)]

RECURSIVE JsonJoin(_)
JsonJoin(props) ==
    IF props = <<>> THEN <<>>
    ELSE IF ~Head(props).present THEN JsonJoin(Tail(props))
    ELSE LET rest == JsonJoin(Tail(props))
         IN Head(props).text \o (IF rest = <<>> THEN <<>> ELSE <<",">> \o rest)

JsonObject(props) == <<"{">> \o JsonJoin(props) \o <<"}">>

\* the property filters of an object being written
JsonFiltersProperty(f) ==
    [present |-> TRUE,
     text |-> JsonQuote(S_filters) \o <<":">> \o
              JsonObject(<<JsonProperty(S_date, f.date),
                           JsonProperty(S_location, f.location),
                           JsonProperty(S_category, f.category)>>)]

\* JSON.stringify(searchState)
StringifySearchState(c) ==
    JsonObject(<<
        JsonFiltersProperty(c.filters),
        JsonProperty(S_searchQuery, JStr(c.searchQuery)),
        JsonProperty(S_sortBy, JStr(c.sortBy)),
        JsonProperty(S_sortOrder, JStr(c.sortOrder))>>)

JsonFail == [ok |-> FALSE, v |-> Undefined, next |-> 0]

\* the rest of a string literal from position i on; acc: what was read
RECURSIVE ParseJsonString(_, _, _)
ParseJsonString(t, i, acc) ==
    IF i > Len(t) THEN JsonFail
    ELSE IF t[i] = "\"" THEN [ok |-> TRUE, v |-> JStr(acc), next |-> i + 1]
    ELSE IF t[i] = "\\"
         THEN IF i + 1 <= Len(t) /\ t[i + 1] \in {"\"", "\\"}
              THEN ParseJsonString(t, i + 2, Append(acc, t[i + 1]))
              ELSE JsonFail
    ELSE ParseJsonString(t, i + 1, Append(acc, t[i]))

\* JSON.parse: a value at position i (a string or an object), and the
\* members of an object from position i on
\* the digits of a number from position i on
RECURSIVE ParseJsonDigits(_, _, _)
ParseJsonDigits(t, i, acc) ==
    IF i <= Len(t) /\ IsDigit(t[i]) THEN ParseJsonDigits(t, i + 1, Append(acc, t[i]))
    ELSE [ok |-> TRUE, v |-> JNum(DigitsVal(acc), 1), next |-> i]

RECURSIVE ParseJsonValue(_, _), ParseJsonMembers(_, _, _), ParseJsonElements(_, _, _)
ParseJsonValue(t, i) ==
    IF i > Len(t) THEN JsonFail
    ELSE IF t[i] = "\"" THEN ParseJsonString(t, i + 1, <<>>)
    ELSE IF IsDigit(t[i]) THEN ParseJsonDigits(t, i, <<>>)
    ELSE IF t[i] = "["
         THEN IF i + 1 <= Len(t) /\ t[i + 1] = "]"
              THEN [ok |-> TRUE, v |-> [k |-> "array", items |-> <<>>], next |-> i + 2]
              ELSE ParseJsonElements(t, i + 1, <<>>)
    ELSE IF t[i] = "{"
         THEN IF i + 1 <= Len(t) /\ t[i + 1] = "}"
              THEN [ok |-> TRUE, v |-> [k |-> "object", members |-> <<>>], next |-> i + 2]
              ELSE ParseJsonMembers(t, i + 1, <<>>)
    ELSE JsonFail

ParseJsonMembers(t, i, acc) ==
    IF i > Len(t) \/ t[i] # "\"" THEN JsonFail
    ELSE LET key == ParseJsonString(t, i + 1, <<>>)
         IN IF ~key.ok \/ key.next > Len(t) \/ t[key.next] # ":" THEN JsonFail
            ELSE LET val == ParseJsonValue(t, key.next + 1)
                     all == Append(acc, [key |-> key.v.s, value |-> val.v])
                 IN IF ~val.ok \/ val.next > Len(t) THEN JsonFail
                    ELSE IF t[val.next] = "," THEN ParseJsonMembers(t, val.next + 1, all)
                    ELSE IF t[val.next] = "}"
                         THEN [ok |-> TRUE, v |-> [k |-> "object", members |-> all],
                               next |-> val.next + 1]
                    ELSE JsonFail

\* the elements of an array from position i on
ParseJsonElements(t, i, acc) ==
    LET val == ParseJsonValue(t, i)
        all == Append(acc, val.v)
    IN IF ~val.ok \/ val.next > Len(t) THEN JsonFail
       ELSE IF t[val.next] = "," THEN ParseJsonElements(t, val.next + 1, all)
       ELSE IF t[val.next] = "]"
            THEN [ok |-> TRUE, v |-> [k |-> "array", items |-> all], next |-> val.next + 1]
       ELSE JsonFail

\* obj.key: the value of the last member of that name, or undefined
JsonGet(obj, key) ==
    IF obj.k # "object" THEN Undefined
    ELSE LET I == {i \in 1..Len(obj.members) : obj.members[i].key = key}
         IN IF I = {} THEN Undefined
            ELSE obj.members[CHOOSE i \in I : \A j \in I : j <= i].value

\* ToBoolean of a parsed value
JsonTruthy(x) == x.k = "object" \/ (x.k = "string" /\ x.s # <<>>)

\* StorageManager.setItem(key, value)
SetItem(text) == [present |-> TRUE, text |-> text]

\* StorageManager.getItem(key, defaultValue): the default when the item is
\* missing, empty or does not parse
GetItemOr(item, defaultValue) ==
    IF ~item.present \/ item.text = <<>> THEN defaultValue
    ELSE LET r == ParseJsonValue(item.text, 1)
         IN IF r.ok /\ r.next = Len(item.text) + 1 THEN r.v ELSE defaultValue

\* StorageManager.getItem(key)
GetItem(item) == GetItemOr(item, JNull)

(***************************************************************************)
(* The search page's history of searches                                   *)
(***************************************************************************)
\* searches completed in one behaviour
MaxSearches == 11

\* the entries the history keeps
maxHistory == 10

S_resultsCount == <<"r", "e", "s", "u", "l", "t", "s", "C", "o", "u", "n", "t">>
S_timestamp == <<"t", "i", "m", "e", "s", "t", "a", "m", "p">>

EmptyArray == [k |-> "array", items |-> <<>>]

\* new Date().toISOString() when the clock shows hour h of the day
NowIso(h) == IsoString(Time(2025, 11, 5, h))

\* searchEntry
SearchEntry(f, n, h) ==
    [filters |-> f, resultsCount |-> JNum(n, 1), timestamp |-> JStr(NowIso(h))]

\* JSON.stringify(this.searchHistory)
RECURSIVE StringifyEntries(_)
StringifyEntries(h) ==
    IF h = <<>> THEN <<>>
    ELSE JsonObject(<<JsonFiltersProperty(Head(h).filters),
                      [present |-> TRUE,
                       text |-> JsonQuote(S_resultsCount) \o <<":">>
                                \o NumberToString(Head(h).resultsCount.v)],
                      JsonProperty(S_timestamp, Head(h).timestamp)>>)
         \o (IF Tail(h) = <<>> THEN <<>> ELSE <<",">> \o StringifyEntries(Tail(h)))

StringifyHistory(h) == <<"[">> \o StringifyEntries(h) \o <<"]">>

\* an entry as it is read back from the parsed array
ParsedEntry(x) ==
    LET f == JsonGet(x, S_filters)
    IN [filters |-> Filters(JsonGet(f, S_date), JsonGet(f, S_location), JsonGet(f, S_category)),
        resultsCount |-> JsonGet(x, S_resultsCount),
        timestamp |-> JsonGet(x, S_timestamp)]

\* _setupSearchHistory
SetupSearchHistory(item) ==
    LET v == GetItemOr(item, EmptyArray)
    IN [i \in 1..Len(v.items) |-> ParsedEntry(v.items[i])]

\* a history that is never cut
UpdateSearchHistory_Uncut(h, e) == <<e>> \o h

\* _updateSearchHistory: unshift, then slice(0, 10) when longer
UpdateSearchHistory(h, e) ==
    LET all == <<e>> \o h
    IN IF Len(all) > maxHistory THEN SubSeq(all, 1, maxHistory) ELSE all

(***************************************************************************)
(* The search page: class SearchPage                                       *)
(***************************************************************************)
\* _performSearch calls that can be awaiting their results at once
MaxPending == 1

\* the values the user gives the three filter controls
SpDateValues == {<<>>, <<"2", "0", "2", "5", "-", "0", "9", "-", "1", "5">>}

SpLocationValues == {<<>>, <<" ">>, <<"p", "\"", "\\">>}

SpCategoryValues == {<<>>, <<"1">>}

\* values of the sort control
SearchSortOptions ==
    {S_name \o <<"_">> \o S_asc, S_price \o <<"_">> \o S_desc,
     S_relevance \o <<"_">> \o S_desc}

\* x || fallback on a parsed string
StringOr(x, fallback) == IF JsonTruthy(x) THEN x.s ELSE fallback

\* _saveSearchState
SaveSearchState(st) == SetItem(StringifySearchState(Criteria(st)))

\* _restoreSearchState
RestoreSearchState(st, item) ==
    LET saved == GetItem(item)
        f == JsonGet(saved, S_filters)
    IN IF ~JsonTruthy(saved) THEN st
       ELSE [st EXCEPT
                !.currentFilters = Filters(JsonGet(f, S_date), JsonGet(f, S_location),
                                           JsonGet(f, S_category)),
                !.searchQuery = StringOr(JsonGet(saved, S_searchQuery), <<>>),
                !.sortBy = StringOr(JsonGet(saved, S_sortBy), S_relevance),
                !.sortOrder = StringOr(JsonGet(saved, S_sortOrder), S_desc)]

\* a test that takes every non-empty filter for an active one
HasActiveFilters_NonEmpty(f) ==
    \E x \in {f.date, f.location, f.category} : JsTruthy(x)

\* _hasActiveFilters
HasActiveFilters(f) ==
    \E x \in {f.date, f.location, f.category} : JsTruthy(x) /\ Trim(x.s) # <<>>

\* _clearResults
ClearResults(dom) ==
    [dom EXCEPT !.searchError = FALSE, !.noResults = FALSE, !.resultsContainer = FALSE,
                !.summary = NoSummary]

\* this.state.categories.find(cat => cat.id == c): the names of the
\* categories whose id equals the filter's value as a number
CategoryNamed(cats, c) ==
    SelectSeq(cats, LAMBDA cat : NumEq(cat.id, StringToNumber(c.s)))

\* _getActiveFilterNames
ActiveFilterNames(f, cats) ==
    (IF JsTruthy(f.date) THEN <<S_date>> ELSE <<>>)
    \o (IF JsTruthy(f.location) THEN <<S_location>> ELSE <<>>)
    \o (IF JsTruthy(f.category)
        THEN <<IF CategoryNamed(cats, f.category) # <<>>
               THEN CategoryNamed(cats, f.category)[1].name ELSE S_category>>
        ELSE <<>>)

\* _getFilterDescription: the parts of the description, each with the value
\* it is written from (the date as given, before it is formatted)
FilterDescription(f, cats) ==
    (IF JsTruthy(f.date) THEN <<[part |-> "on", of |-> f.date.s]>> ELSE <<>>)
    \o (IF JsTruthy(f.location) THEN <<[part |-> "in", of |-> f.location.s]>> ELSE <<>>)
    \o (IF JsTruthy(f.category) /\ CategoryNamed(cats, f.category) # <<>>
        THEN <<[part |-> "category", of |-> CategoryNamed(cats, f.category)[1].name]>>
        ELSE <<>>)

\* _highlightSearchTerms: the term marked in the cards
HighlightedTerm(f) == IF JsTruthy(f.location) THEN ToLowerCase(f.location.s) ELSE <<>>

\* SearchPage._showErrorState
ShowSearchError(dom) ==
    [dom EXCEPT !.searchError = TRUE, !.noResults = FALSE, !.resultsContainer = FALSE]

\* a rendering that leaves the panels as they are
RenderSearchResults_Nothing(dom, st) == dom

\* _renderSearchResults: _showNoResults with its message, or the summary,
\* the cards and the results container
RenderSearchResults(dom, st) ==
    IF st.searchResults = <<>>
    THEN [dom EXCEPT !.searchError = FALSE, !.noResults = TRUE, !.resultsContainer = FALSE,
                     !.message = ActiveFilterNames(st.currentFilters, st.categories)]
    ELSE [dom EXCEPT !.searchError = FALSE, !.noResults = FALSE, !.resultsContainer = TRUE,
                     !.rendered = st.filteredEvents,
                     !.term = HighlightedTerm(st.currentFilters),
                     !.summary = [set |-> TRUE, count |-> Len(st.searchResults),
                                  about |-> FilterDescription(st.currentFilters, st.categories)]]

\* what the server's search handler returns for a query, as the client
\* would validate it
ServerSearchResults(q) ==
    ValidateEventsData(ArrayBody(Rows({i \in EventIds : SearchWhere(i, q)})))

\* _performSearch up to its await: the panels are hidden and the request
\* is built from the filters of this moment
StartSearchWithin(bound, st, dom, how, saved) ==
    /\ Len(spPending) < bound
    /\ sp' = [st EXCEPT !.isSearching = TRUE, !.hasSearched = TRUE]
    /\ spDom' = ClearResults(dom)
    /\ spPending' = Append(spPending, SearchEndpoint(st.currentFilters))
    /\ spLast' = [spLast EXCEPT !.event = how, !.requested = TRUE, !.saved = saved,
                                !.search = "none", !.list = "none"]

StartSearch(st, dom, how, saved) == StartSearchWithin(MaxPending, st, dom, how, saved)

\* _handleFilterChange: a control changes, _updateFiltersState reads all
\* three, and a search starts or the results are cleared
SpFilterChange ==
    \E d \in SpDateValues, l \in SpLocationValues, c \in SpCategoryValues :
        LET f == Filters(JStr(d), JStr(l), JStr(c))
            st == [sp EXCEPT !.currentFilters = f]
            n == Cardinality({x \in {"date", "location", "category"} :
                                  f[x] # sp.currentFilters[x]})
        IN /\ n = 1
           /\ storage' = SaveSearchState(st)
           /\ IF HasActiveFilters(f)
              THEN /\ StartSearch(st, spDom, "filterChange", Criteria(st))
              ELSE /\ sp' = st
                   /\ spDom' = ClearResults(spDom)
                   /\ spLast' = [spLast EXCEPT !.event = "filterChange", !.requested = FALSE,
                                               !.saved = Criteria(st)]
                   /\ UNCHANGED spPending
           /\ UNCHANGED <<dbVars, apiVars, pageVars, homeVars, sorting, restVars>>

\* _handleFormSubmit
SpSubmit ==
    /\ StartSearch(sp, spDom, "submit", spLast.saved)
    /\ UNCHANGED storage
    /\ UNCHANGED <<dbVars, apiVars, pageVars, homeVars, sorting, restVars>>

\* _handleRetrySearch: the retry button is in the error panel
SpRetrySearch ==
    /\ spDom.searchError
    /\ StartSearch(sp, spDom, "retry", spLast.saved)
    /\ UNCHANGED storage
    /\ UNCHANGED <<dbVars, apiVars, pageVars, homeVars, sorting, restVars>>

\* _handleClearFilters
SpClearFilters ==
    /\ LET st == [sp EXCEPT !.currentFilters = NoFilters, !.searchResults = <<>>,
                            !.hasSearched = FALSE]
       IN /\ sp' = st
          /\ storage' = SaveSearchState(st)
          /\ spLast' = [spLast EXCEPT !.event = "clear", !.requested = FALSE,
                                      !.saved = Criteria(st)]
    /\ spDom' = ClearResults(spDom)
    /\ UNCHANGED spPending
    /\ UNCHANGED <<dbVars, apiVars, pageVars, homeVars, sorting, restVars>>

\* SearchPage._handleSortChange
SpSortChange ==
    /\ \E v \in SearchSortOptions :
          LET by == SplitFirst(v, "_")
              order == SplitSecond(v, "_")
              st == [sp EXCEPT !.sortBy = by, !.sortOrder = order,
                               !.filteredEvents = SortEvents(sp.searchResults, by, order)]
          IN /\ sp' = st
             /\ spDom' = [spDom EXCEPT !.rendered = st.filteredEvents]
    /\ spLast' = [spLast EXCEPT !.event = "sort", !.requested = FALSE]
    /\ UNCHANGED <<storage, spPending>>
    /\ UNCHANGED <<dbVars, apiVars, pageVars, homeVars, sorting, restVars>>

\* the rest of _performSearch once the i-th pending call of api.searchEvents
\* has settled: its try with the results (rendered, entered into the
\* history, saved), or its catch and _handleSearchError
SearchSettled(i, ok, results, expected) ==
    /\ IF ok
       THEN \E st \in {[sp EXCEPT !.searchResults = results,
                                   !.filteredEvents = SortEvents(results, sp.sortBy, sp.sortOrder),
                                   !.isSearching = FALSE]} :
               /\ sp' = st
               /\ spDom' = RenderSearchResults(spDom, st)
               /\ \E m \in {UpdateSearchHistory(hist.memory,
                                   SearchEntry(st.currentFilters, Len(results), hist.clock))} :
                     hist' = [hist EXCEPT !.memory = m,
                                          !.item = SetItem(StringifyHistory(m)),
                                          !.log = <<m[1]>> \o @,
                                          !.restored = FALSE]
               /\ storage' = SaveSearchState(st)
               /\ spLast' = [spLast EXCEPT !.event = "searchOk", !.requested = FALSE,
                                           !.search = "ok", !.expected = expected,
                                           !.saved = Criteria(st)]
       ELSE /\ sp' = [sp EXCEPT !.isSearching = FALSE, !.hasError = TRUE]
            /\ spDom' = ShowSearchError(spDom)
            /\ spLast' = [spLast EXCEPT !.event = "searchFailed", !.requested = FALSE,
                                        !.search = "failed", !.expected = expected]
            /\ UNCHANGED <<storage, hist>>
    /\ spPending' = [j \in 1..(Len(spPending) - 1) |->
                        IF j < i THEN spPending[j] ELSE spPending[j + 1]]

\* api.searchEvents settles for the search in flight
SpSearchSettles ==
    /\ spPending # <<>>
    /\ \E out \in FetchOutcomes(Head(spPending)) :
          SearchSettled(1, MakeRequest(out).ok,
                        Continue("searchEvents", MakeRequest(out).data).value.items,
                        ServerSearchResults(Head(spPending).query))
    /\ UNCHANGED <<dbVars, apiVars, pageVars, homeVars, sorting, eventVars, calc>>

\* the page is loaded again: a new SearchPage whose init ends with
\* _restoreSearchState
SpReload ==
    /\ spLast.event # "restored"
    /\ sp' = RestoreSearchState(SearchState0, storage)
    /\ spDom' = SearchDom0
    /\ spPending' = <<>>
    /\ spLast' = [spLast EXCEPT !.event = "restored", !.requested = FALSE,
                                !.search = "none", !.list = "none", !.expected = <<>>]
    /\ UNCHANGED storage
    /\ UNCHANGED <<dbVars, apiVars, pageVars, homeVars, sorting, restVars>>

InitSearchPage ==
    /\ active = [i \in EventIds |-> "TRUE"]
    /\ tz = 0
    /\ envelope \in BOOLEAN
    /\ ApiInit
    /\ PageInit
    /\ HomeIdle
    /\ SearchPageIdle
    /\ sorting = NoSorting
    /\ RestIdle

NextSearchPage ==
    \/ SpFilterChange
    \/ SpSubmit
    \/ SpRetrySearch
    \/ SpClearFilters
    \/ SpSortChange
    \/ SpSearchSettles
    \/ SpReload

SpecSearchPage == InitSearchPage /\ [][NextSearchPage]_vars

(***************************************************************************)
(* The history of searches on its own                                      *)
(***************************************************************************)
\* the filters and the number of results a completed search leaves in
\* this.state, and whether the clock has moved since the search before
CompletedSearches ==
    {[filters |-> Filters(JStr(<<"2", "0", "2", "5", "-", "0", "9", "-", "1", "5">>), JStr(<<>>), JStr(<<>>)),
      count |-> 1, later |-> 1],
     [filters |-> Filters(JStr(<<>>), JStr(<<"p", "\"", "\\">>), JStr(<<"1">>)),
      count |-> 0, later |-> 0]}

\* a search completes: _performSearch's call of _updateSearchHistory
HistSearchCompletes ==
    /\ Len(hist.log) < MaxSearches
    /\ \E c \in CompletedSearches :
          LET h == hist.clock + c.later
              e == SearchEntry(c.filters, c.count, h)
              m == UpdateSearchHistory(hist.memory, e)
          IN hist' = [memory |-> m, item |-> SetItem(StringifyHistory(m)), clock |-> h,
                      log |-> <<e>> \o hist.log, restored |-> FALSE]
    /\ UNCHANGED <<dbVars, apiVars, pageVars, homeVars, searchPageVars, sorting, eventVars, calc>>

\* the page is loaded again: init's _setupSearchHistory
HistReload ==
    /\ ~hist.restored
    /\ hist' = [hist EXCEPT !.memory = SetupSearchHistory(hist.item), !.restored = TRUE]
    /\ UNCHANGED <<dbVars, apiVars, pageVars, homeVars, searchPageVars, sorting, eventVars, calc>>

InitHistory ==
    /\ active = [i \in EventIds |-> "TRUE"]
    /\ tz = 0
    /\ envelope = TRUE
    /\ ApiInit
    /\ PageInit
    /\ HomeIdle
    /\ SearchPageIdle
    /\ sorting = NoSorting
    /\ RestIdle

NextHistory == HistSearchCompletes \/ HistReload

SpecHistory == InitHistory /\ [][NextHistory]_vars

(***************************************************************************)
(* Utils.calculateProgress                                                 *)
(***************************************************************************)
\* Math.round of the fraction n / d, d > 0: the integer nearest to it, a
\* half going up
MathRound(n, d) == (2 * n + d) \div (2 * d)

\* a calculateProgress without the Math.min
CalculateProgress_NoMin(current, total) ==
    IF ~total.nan /\ total.n = 0 THEN Num(0, 1)
    ELSE IF current.nan \/ total.nan THEN NaN
    ELSE Num(MathRound(current.n * total.d * 100, current.d * total.n), 1)

\* Utils.calculateProgress: 0 for a goal of 0, else
\* Math.min(100, Math.round((current / total) * 100))
CalculateProgress(current, total) ==
    IF ~total.nan /\ total.n = 0 THEN Num(0, 1)
    ELSE IF current.nan \/ total.nan THEN NaN
    ELSE LET n == current.n * total.d * 100
             d == current.d * total.n
             r == IF d < 0 THEN MathRound(0 - n, 0 - d) ELSE MathRound(n, d)
         IN Num(IF r > 100 THEN 100 ELSE r, 1)

(***************************************************************************)
(* The event page: class EventPage, and the navigation's scroll lock       *)
(***************************************************************************)
\* calls of _loadEventData in one behaviour
MaxEventLoads == 2

\* initial-focus timers of _openModal that can be pending at once
MaxFocusTimers == 2

\* ticks of the progress timers in one behaviour
MaxTicks == 2

M_EventNotFound == <<"E", "v", "e", "n", "t", " ", "n", "o", "t", " ", "f", "o", "u", "n", "d">>
M_notFound == <<"n", "o", "t", " ", "f", "o", "u", "n", "d">>
M_NetworkError == <<"N", "e", "t", "w", "o", "r", "k", " ", "e", "r", "r", "o", "r">>

\* the three texts of _getUserFriendlyErrorMessage
T_NotFound == "The event you are looking for does not exist or has been removed."

T_Connectivity == "Unable to load event details. Please check your internet connection."

T_Generic == "We encountered an error while loading the event details. Please try again."

\* parseInt(s): leading white space, a sign, then the longest run of digits
ParseInt(s) ==
    LET t == TrimStart(s)
        neg == t # <<>> /\ Head(t) = "-"
        u == IF t # <<>> /\ Head(t) \in {"-", "+"} THEN Tail(t) ELSE t
        n == IF \E i \in 1..Len(u) : ~IsDigit(u[i])
             THEN (CHOOSE i \in 1..Len(u) : ~IsDigit(u[i]) /\ \A j \in 1..(i - 1) : IsDigit(u[j])) - 1
             ELSE Len(u)
    IN IF n = 0 THEN NaN
       ELSE Num((IF neg THEN 0 - 1 ELSE 1) * DigitsVal(SubSeq(u, 1, n)), 1)

\* values of the query parameter id; JNull: the parameter is missing
UrlIds ==
    {JNull, JStr(<<>>), JStr(<<"a", "b", "c">>), JStr(<<"1", "2", "a", "b">>), JStr(<<" ">>),
     JStr(<<"0">>), JStr(<<"1">>), JStr(<<"2">>), JStr(<<"9">>), JStr(<<"1", ".", "5">>)}

\* _getEventIdFromURL: null (JNull) or parseInt of the parameter
GetEventIdFromURL(p) ==
    IF ~JsTruthy(p) \/ StringToNumber(p.s).nan THEN JNull
    ELSE [k |-> "number", s |-> <<>>, v |-> ParseInt(p.s)]

\* _getUserFriendlyErrorMessage
UserFriendlyErrorMessage(m) ==
    IF Includes(m, M_notFound) THEN T_NotFound
    ELSE IF Includes(m, M_NetworkError) THEN T_Connectivity
    ELSE T_Generic

\* what api.fetchEventById(id) settles with for one outcome of its request
ApiFetchEventById(id, out) ==
    IF InvalidId(id) THEN [ok |-> FALSE, value |-> NoResult, error |-> Err("Error", M_InvalidId)]
    ELSE LET mr == MakeRequest(out)
         IN IF mr.ok THEN Continue("fetchEventById", mr.data)
            ELSE [ok |-> FALSE, value |-> NoResult, error |-> mr.error]

\* the focusable elements of the registration dialog, in document order
DialogFocusable == <<"modalClose", "modalField", "modalSubmit">>

InDialog(x) == \E i \in 1..Len(DialogFocusable) : DialogFocusable[i] = x

\* the elements of the page that take part in sequential focus navigation
TabOrder == <<"navLink", "menuButton", "registerButton", "shareButton">> \o DialogFocusable

\* the element is rendered: it is not inside a container of class hidden
Rendered(dom, st, n, x) ==
    CASE x \in {"registerButton", "shareButton"} -> dom.details /\ st.registerButton
      [] InDialog(x) -> ~dom.modalHidden
      [] x = "menuButton" -> n.mobile
      [] OTHER -> TRUE

\* element.focus(): a rendered element takes the focus; whether an element
\* in a hidden container does is up to the style sheet
Focus(dom, st, n, x) ==
    IF Rendered(dom, st, n, x) \/ dom.hiddenTakesFocus THEN [dom EXCEPT !.focus = x] ELSE dom

\* the focused element loses the focus when it stops being rendered
FocusKept(dom, st, n) ==
    IF dom.focus # "body" /\ ~Rendered(dom, st, n, dom.focus) /\ ~dom.hiddenTakesFocus
    THEN [dom EXCEPT !.focus = "body"] ELSE dom

\* the browser's own Tab and Shift+Tab: the next, or the previous, rendered
\* element of the tab order; past the end the focus leaves the page
DefaultTab(dom, st, n, shift) ==
    LET I == {i \in 1..Len(TabOrder) : Rendered(dom, st, n, TabOrder[i])}
        at == {i \in 1..Len(TabOrder) : TabOrder[i] = dom.focus}
        here == IF at = {} THEN (IF shift THEN Len(TabOrder) + 1 ELSE 0) ELSE CHOOSE i \in at : TRUE
        after == {i \in I : i > here}
        before == {i \in I : i < here}
    IN IF shift
       THEN IF before = {} THEN "body" ELSE TabOrder[CHOOSE i \in before : \A j \in before : j <= i]
       ELSE IF after = {} THEN "body" ELSE TabOrder[CHOOSE i \in after : \A j \in after : i <= j]

\* a focus trap that never wraps
TrapFocus_None(dom, st, n, shift) == [dom EXCEPT !.focus = DefaultTab(dom, st, n, shift)]

\* _trapFocus, and the default action when it is not prevented
TrapFocus(dom, st, n, shift) ==
    LET first == DialogFocusable[1]
        last_ == DialogFocusable[Len(DialogFocusable)]
    IN IF shift /\ dom.focus = first THEN Focus(dom, st, n, last_)
       ELSE IF ~shift /\ dom.focus = last_ THEN Focus(dom, st, n, first)
       ELSE [dom EXCEPT !.focus = DefaultTab(dom, st, n, shift)]

\* EventPage._showLoadingState
EvShowLoading(dom) == [dom EXCEPT !.loading = TRUE, !.error = FALSE, !.details = FALSE]

\* EventPage._showErrorState
EvShowError(dom, m) ==
    [dom EXCEPT !.loading = FALSE, !.error = TRUE, !.details = FALSE,
                !.errorText = UserFriendlyErrorMessage(m)]

\* _closeModal
CloseModal(dom, st, n) ==
    LET d1 == FocusKept([dom EXCEPT !.modalHidden = TRUE, !.overflow = ""], st, n)
    IN IF st.registerButton THEN Focus(d1, st, n, "registerButton") ELSE d1

\* NavigationManager._closeMobileMenu
CloseMobileMenu(dom) == [dom EXCEPT !.overflow = ""]

\* _loadEventData up to its await
EvStartLoad(st, id) ==
    /\ evEnv.fetches < MaxEventLoads
    /\ evp' = [st EXCEPT !.isLoading = TRUE]
    /\ evDom' = FocusKept(EvShowLoading(evDom), st, nav)
    /\ evEnv' = [evEnv EXCEPT !.loads = Append(@, id), !.fetches = @ + 1]

\* init with the API in place: elements, listeners, the id of the URL, and
\* the load or _handleInvalidEventId
EvInit ==
    /\ evp.pc = "new"
    /\ windowApi
    /\ LET id == GetEventIdFromURL(evEnv.url)
           st == [evp EXCEPT !.pc = "ready", !.cached = TRUE, !.listening = TRUE]
       IN IF JsTruthy(id)
          THEN EvStartLoad([st EXCEPT !.currentEventId = id], id)
          ELSE /\ evp' = [st EXCEPT !.hasError = TRUE, !.errorMessage = M_InvalidId]
               /\ evDom' = EvShowError(evDom, M_InvalidId)
               /\ UNCHANGED evEnv
    /\ UNCHANGED <<nav, nonEventVars>>

\* init without the API: _waitForDependencies gives up after maxWaitTime
\* and _handleInitializationError finds no element cached
EvInitFails ==
    /\ evp.pc = "new"
    /\ ~windowApi
    /\ evp' = [evp EXCEPT !.pc = "failed"]
    /\ UNCHANGED <<evDom, evEnv, nav, nonEventVars>>

\* reload()
EvReload ==
    /\ evp.pc = "ready"
    /\ JsTruthy(evp.currentEventId)
    /\ EvStartLoad(evp, evp.currentEventId)
    /\ UNCHANGED <<nav, nonEventVars>>

\* the progress bar _createEventDetailsHTML writes for an event
ProgressOf(e) ==
    IF NumLess(Num(0, 1), e.goal_amount)
    THEN [bar |-> TRUE, pct |-> CalculateProgress(e.current_amount, e.goal_amount).n]
    ELSE NoProgress

\* the row as it is when the request is served: its goal_amount may have
\* been set to 0.00 since the page was opened
Answered(r) ==
    IF r.ok /\ evEnv.goalWithdrawn THEN [r EXCEPT !.value.e.goal_amount = Num(0, 1)] ELSE r

\* the rest of _loadEventData once the i-th pending fetch settled with r
EvLoadSettled(i, r) ==
    LET rest == [j \in 1..(Len(evEnv.loads) - 1) |->
                    IF j < i THEN evEnv.loads[j] ELSE evEnv.loads[j + 1]]
        found == r.ok /\ ~r.value.e.id.nan /\ r.value.e.id.n # 0
        polls == found /\ ~r.value.e.goal_amount.nan /\ r.value.e.goal_amount.n > 0
    IN IF found
       THEN /\ evp' = [evp EXCEPT !.event = r.value, !.isLoading = FALSE,
                                  !.registerButton = evp.cached, !.buttonLive = evp.cached,
                                  !.progressInterval = IF polls THEN evEnv.nextTimer ELSE @]
            /\ evDom' = IF evp.cached
                        THEN [evDom EXCEPT !.loading = FALSE, !.error = FALSE, !.details = TRUE,
                                           !.progress = ProgressOf(r.value.e)]
                        ELSE evDom
            /\ evEnv' = [evEnv EXCEPT
                   !.loads = rest,
                   !.timers = IF polls THEN (@ \ {evp.progressInterval}) \cup {evEnv.nextTimer} ELSE @,
                   !.nextTimer = IF polls THEN @ + 1 ELSE @]
       ELSE /\ evp' = [evp EXCEPT !.isLoading = FALSE, !.hasError = TRUE,
                                  !.errorMessage = IF r.ok THEN M_EventNotFound ELSE r.error.message]
            /\ evDom' = FocusKept(EvShowError(evDom, IF r.ok THEN M_EventNotFound ELSE r.error.message),
                                  evp, nav)
            /\ evEnv' = [evEnv EXCEPT !.loads = rest]

\* api.fetchEventById settles, for any of the loads in flight
EvLoadSettles ==
    /\ \E i \in 1..Len(evEnv.loads) :
        \E out \in FetchOutcomes(EventEndpoint(evEnv.loads[i])) :
          EvLoadSettled(i, Answered(ApiFetchEventById(evEnv.loads[i], out)))
    /\ UNCHANGED <<nav, nonEventVars>>

\* values of Math.random() * 100
RandomAmounts == {0, 40, 99}

\* _updateProgressDisplay: the bar and the numbers show the progress of the
\* amount raised plus a random amount
UpdateProgressDisplay(dom, st, add) ==
    IF st.event = NullValue \/ ~dom.progress.bar THEN dom
    ELSE LET e == st.event.e
             newAmount == Num(e.current_amount.n + add * e.current_amount.d, e.current_amount.d)
         IN [dom EXCEPT !.progress.pct = CalculateProgress(newAmount, e.goal_amount).n]

\* a progress timer fires
EvProgressTick ==
    /\ evEnv.timers # {}
    /\ evEnv.ticks < MaxTicks
    /\ \E add \in RandomAmounts : evDom' = UpdateProgressDisplay(evDom, evp, add)
    /\ evEnv' = [evEnv EXCEPT !.ticks = @ + 1, !.lateTick = @ \/ evp.destroyed]
    /\ UNCHANGED <<evp, nav, nonEventVars>>

\* UPDATE events SET goal_amount = 0.00 for the event of the page
EvGoalWithdrawn ==
    /\ ~evEnv.goalWithdrawn
    /\ evEnv' = [evEnv EXCEPT !.goalWithdrawn = TRUE]
    /\ UNCHANGED <<evp, evDom, nav, nonEventVars>>

\* destroy()
EvDestroy ==
    /\ ~evp.destroyed
    /\ evp' = [evp EXCEPT !.destroyed = TRUE, !.listening = FALSE, !.buttonLive = FALSE]
    /\ evEnv' = [evEnv EXCEPT !.timers = @ \ {evp.progressInterval}]
    /\ UNCHANGED <<evDom, nav, nonEventVars>>

\* a click on the register button: _handleRegistration and _openModal
EvRegister ==
    /\ evp.buttonLive
    /\ Rendered(evDom, evp, nav, "registerButton")
    /\ evDom.modalHidden
    /\ evEnv.focusTimers < MaxFocusTimers
    /\ evp' = [evp EXCEPT !.isModalOpen = TRUE]
    /\ evDom' = [evDom EXCEPT !.modalHidden = FALSE, !.overflow = "hidden",
                              !.focus = "registerButton"]
    /\ evEnv' = [evEnv EXCEPT !.focusTimers = @ + 1, !.tabbed = FALSE, !.closed = FALSE]
    /\ UNCHANGED <<nav, nonEventVars>>

\* the timer of _openModal fires, modalTransition after the opening
EvFocusTimer ==
    /\ evEnv.focusTimers > 0
    /\ evDom' = Focus(evDom, evp, nav, DialogFocusable[1])
    /\ evEnv' = [evEnv EXCEPT !.focusTimers = @ - 1]
    /\ UNCHANGED <<evp, nav, nonEventVars>>

\* Tab or Shift+Tab is pressed: _handleKeydown, then the default action
EvTab ==
    /\ evDom.focus # "body" \/ ~evDom.modalHidden
    /\ \E shift \in BOOLEAN :
          evDom' = IF evp.listening /\ evp.isModalOpen
                   THEN TrapFocus(evDom, evp, nav, shift)
                   ELSE [evDom EXCEPT !.focus = DefaultTab(evDom, evp, nav, shift)]
    /\ evEnv' = [evEnv EXCEPT !.tabbed = evp.isModalOpen, !.closed = FALSE]
    /\ UNCHANGED <<evp, nav, nonEventVars>>

\* Escape is pressed while the dialog is shown
EvEscape ==
    /\ ~evDom.modalHidden
    /\ IF evp.listening /\ evp.isModalOpen
       THEN /\ evp' = [evp EXCEPT !.isModalOpen = FALSE]
            /\ evDom' = CloseModal(evDom, evp, nav)
            /\ evEnv' = [evEnv EXCEPT !.tabbed = FALSE, !.closed = TRUE]
       ELSE /\ evEnv' = [evEnv EXCEPT !.escapeIgnored = TRUE]
            /\ UNCHANGED <<evp, evDom>>
    /\ UNCHANGED <<nav, nonEventVars>>

\* a click on the close button or on the overlay of the dialog
EvCloseClick ==
    /\ ~evDom.modalHidden
    /\ evp.listening
    /\ evp' = [evp EXCEPT !.isModalOpen = FALSE]
    /\ evDom' = CloseModal(evDom, evp, nav)
    /\ evEnv' = [evEnv EXCEPT !.tabbed = FALSE, !.closed = TRUE]
    /\ UNCHANGED <<nav, nonEventVars>>

\* the window is resized and the debounced _handleResize runs
NavResize ==
    /\ ~nav.destroyed
    /\ \E m \in BOOLEAN :
          LET n == [nav EXCEPT !.mobile = m, !.isMobileMenuOpen = IF m THEN @ ELSE FALSE]
          IN /\ nav' = n
             /\ evDom' = FocusKept(IF m THEN evDom ELSE CloseMobileMenu(evDom), evp, n)
    /\ UNCHANGED <<evp, evEnv, nonEventVars>>

\* a click on the menu button, which the open dialog covers
NavToggleMenu ==
    /\ ~nav.destroyed
    /\ nav.mobile
    /\ evDom.modalHidden
    /\ nav' = [nav EXCEPT !.isMobileMenuOpen = ~@]
    /\ evDom' = IF nav.isMobileMenuOpen THEN CloseMobileMenu(evDom)
                ELSE [evDom EXCEPT !.overflow = "hidden"]
    /\ UNCHANGED <<evp, evEnv, nonEventVars>>

\* NavigationManager.destroy
NavDestroy ==
    /\ ~nav.destroyed
    /\ nav' = [nav EXCEPT !.destroyed = TRUE, !.isMobileMenuOpen = FALSE]
    /\ evDom' = CloseMobileMenu(evDom)
    /\ UNCHANGED <<evp, evEnv, nonEventVars>>

\* the event page is served: any id in the URL, the API script early or late
InitEvent ==
    /\ active = [i \in EventIds |-> "TRUE"]
    /\ tz = 0
    /\ envelope \in BOOLEAN
    /\ ApiInit
    /\ PageInit
    /\ windowApi \in BOOLEAN
    /\ homePc = "new"
    /\ homeWaited = 0
    /\ home = HomeState0
    /\ homeDom = HomeDom0
    /\ homeLoads = 0
    /\ homeLast = NoHandler
    /\ SearchPageIdle
    /\ sorting = NoSorting
    /\ hist = NoHistory
    /\ evp = EventState0
    /\ evDom = EventDom0(FALSE)
    /\ \E p \in UrlIds : evEnv = EventEnv0(p)
    /\ nav = Nav0(FALSE)
    /\ calc = NoCalc

NextEvent ==
    \/ ApiScriptLoads
    \/ EvInit
    \/ EvInitFails
    \/ EvReload
    \/ EvLoadSettles
    \/ EvProgressTick
    \/ EvDestroy

SpecEvent == InitEvent /\ [][NextEvent]_vars

\* the event page with init and reloads only, while the row of its event
\* may change in the database
NextEventReload ==
    \/ ApiScriptLoads
    \/ EvInit
    \/ EvInitFails
    \/ EvReload
    \/ EvLoadSettles
    \/ EvProgressTick
    \/ EvGoalWithdrawn

SpecEventReload == InitEvent /\ [][NextEventReload]_vars

\* the page of event 1 is served, on a narrow or a wide window, with either
\* kind of style sheet
InitEventModal ==
    /\ active = [i \in EventIds |-> "TRUE"]
    /\ tz = 0
    /\ envelope = FALSE
    /\ ApiInit
    /\ PageInit
    /\ HomeIdle
    /\ SearchPageIdle
    /\ sorting = NoSorting
    /\ hist = NoHistory
    /\ evp = EventState0
    /\ \E css \in BOOLEAN : evDom = EventDom0(css)
    /\ evEnv = EventEnv0(JStr(<<"1">>))
    /\ \E m \in BOOLEAN : nav = Nav0(m)
    /\ calc = NoCalc

NextEventModal ==
    \/ EvInit
    \/ EvReload
    \/ EvLoadSettles
    \/ EvDestroy
    \/ EvRegister
    \/ EvFocusTimer
    \/ EvTab
    \/ EvEscape
    \/ EvCloseClick
    \/ NavResize
    \/ NavToggleMenu
    \/ NavDestroy

SpecEventModal == InitEventModal /\ [][NextEventModal]_vars

(***************************************************************************)
(* The fundraising progress of an event card                               *)
(***************************************************************************)
\* values of the columns current_amount and goal_amount, DECIMAL(10,2), as
\* the server sends them
CurrentAmounts ==
    {<<"-", "5", ".", "0", "0">>, <<"0", ".", "0", "0">>, <<"0", ".", "5", "0">>,
     <<"1", ".", "0", "0">>, <<"1", "3", ".", "0", "0">>, <<"2", "5", ".", "0", "0">>,
     <<"6", "5", ".", "0", "0">>, <<"9", "9", ".", "5", "0">>,
     <<"1", "0", "0", ".", "0", "0">>, <<"1", "5", "0", ".", "0", "0">>}

GoalAmounts ==
    {<<"0", ".", "0", "0">>, <<"0", ".", "0", "1">>, <<"3", ".", "0", "0">>,
     <<"4", "0", ".", "0", "0">>, <<"1", "0", "0", ".", "0", "0">>,
     <<"2", "0", "0", ".", "0", "0">>}

\* the amounts of an event after _validateEventData
AmountOf(text) == JsNumber(OrElse(JStr(text), JNum(0, 1)))

\* HomePage._renderEventCard: the percentage, and the progress bar only for
\* a goal above 0
RenderEventCard ==
    /\ calc.fn = "amounts"
    /\ LET current == AmountOf(calc.current_amount)
           goal == AmountOf(calc.goal_amount)
       IN calc' = [calc EXCEPT !.fn = "card",
                               !.progressPercentage = CalculateProgress(current, goal),
                               !.progressBar = NumLess(Num(0, 1), goal)]
    /\ UNCHANGED <<dbVars, apiVars, pageVars, homeVars, searchPageVars, sorting, hist, eventVars>>

\* an event with any of the amounts is about to be rendered
InitProgress ==
    /\ active = [i \in EventIds |-> "TRUE"]
    /\ tz = 0
    /\ envelope = FALSE
    /\ ApiInit
    /\ PageInit
    /\ HomeIdle
    /\ SearchPageIdle
    /\ sorting = NoSorting
    /\ hist = NoHistory
    /\ evp = EventState0
    /\ evDom = EventDom0(FALSE)
    /\ evEnv = EventEnv0(JNull)
    /\ nav = Nav0(FALSE)
    /\ \E c \in CurrentAmounts, g \in GoalAmounts :
          calc = [fn |-> "amounts", current_amount |-> c, goal_amount |-> g,
                  progressPercentage |-> NaN, progressBar |-> FALSE]

NextProgress == RenderEventCard

SpecProgress == InitProgress /\ [][NextProgress]_vars

(***************************************************************************)
(* The search script's filter on its own: performClientSideSearch          *)
(***************************************************************************)
\* longest list of events handed to the filter
MaxFilterLen == 3

\* the lists the filter is given: events of the list endpoint's response, in
\* any order and number
FilterLists == UNION {[1..n -> EventIds] : n \in 0..MaxFilterLen}

\* the criteria of the search form
FilterDates ==
    {<<>>, <<"2", "0", "2", "5", "-", "0", "9", "-", "1", "5">>,
     <<"2", "0", "2", "5", "-", "0", "9", "-", "1", "9">>,
     <<"2", "0", "2", "5", "-", "0", "9", "-", "2", "0">>}

FilterLocations == {<<>>, <<"p", "a", "r", "k">>, <<"H", "A", "L", "L">>}

FilterCategories == {<<>>, <<"1">>, <<"2">>, <<"9">>}

\* allEvents.filter(...) applied to the list, and to its own result
ApplyFilter ==
    /\ calc.fn = "list"
    /\ calc' = IF FilterThrows(calc.events, calc.filters)
               THEN [calc EXCEPT !.fn = "thrown"]
               ELSE LET once == ClientFilter(calc.events, calc.filters)
                    IN [calc EXCEPT !.fn = "filtered", !.once = once,
                                    !.twice = ClientFilter(once, calc.filters)]
    /\ UNCHANGED <<dbVars, apiVars, pageVars, homeVars, searchPageVars, sorting, hist, eventVars>>

\* a list of events received from a server in either time zone, and criteria
InitFilter ==
    /\ active = [i \in EventIds |-> "TRUE"]
    /\ tz \in TzOffsets
    /\ envelope = FALSE
    /\ ApiInit
    /\ PageInit
    /\ HomeIdle
    /\ SearchPageIdle
    /\ sorting = NoSorting
    /\ hist = NoHistory
    /\ evp = EventState0
    /\ evDom = EventDom0(FALSE)
    /\ evEnv = EventEnv0(JNull)
    /\ nav = Nav0(FALSE)
    /\ \E l \in FilterLists, d \in FilterDates, w \in FilterLocations, c \in FilterCategories :
          calc = [fn |-> "list",
                  events |-> [k \in 1..Len(l) |-> ObjectBody(WireRecord(l[k]))],
                  filters |-> Filters(JStr(d), JStr(w), JStr(c)),
                  once |-> <<>>, twice |-> <<>>]

NextFilter == ApplyFilter

SpecFilter == InitFilter /\ [][NextFilter]_vars

(***************************************************************************)
(* The search page with searches overlapping                               *)
(***************************************************************************)
\* searches started in one behaviour
MaxRaceSearches == 3

\* calls of api.searchEvents that can be in flight at once
MaxRacing == 2

\* the filters the overlapping searches are made with: a day with one
\* event, a term in both events, a category of no event
RaceFilters ==
    {Filters(JStr(<<"2", "0", "2", "5", "-", "0", "9", "-", "1", "5">>), JStr(<<>>), JStr(<<>>)),
     Filters(JStr(<<>>), JStr(<<"p", "a", "r", "k">>), JStr(<<>>)),
     Filters(JStr(<<>>), JStr(<<>>), JStr(<<"9">>))}

\* the searches of the race: how many were started, the ids of those in
\* flight in the order of spPending, for each of them the filters it was
\* made with and the list the server's search handler computes for its
\* request, and the responses in the order in which they arrived, each with
\* the filters of its request
NoRace ==
    [fn |-> "race", started |-> 0, ids |-> <<>>, asked |-> <<>>, answers |-> <<>>,
     settled |-> <<>>]

\* a sequence without its i-th element
Without(seq, i) == [j \in 1..(Len(seq) - 1) |-> IF j < i THEN seq[j] ELSE seq[j + 1]]

\* _handleFilterChange with an active filter: the state is saved and
\* _performSearch runs up to its await
SearchStarts(bound) ==
    /\ calc.started < bound
    /\ \E f \in RaceFilters :
          LET st == [sp EXCEPT !.currentFilters = f]
          IN /\ f # sp.currentFilters
             /\ storage' = SaveSearchState(st)
             /\ StartSearchWithin(MaxRacing, st, spDom, "filterChange", Criteria(st))
    /\ calc' = [calc EXCEPT
           !.started = @ + 1,
           !.ids = Append(@, calc.started + 1),
           !.asked = Append(@, sp'.currentFilters),
           !.answers = Append(@, ServerSearchResults(spPending'[Len(spPending')].query))]
    /\ UNCHANGED <<dbVars, apiVars, pageVars, homeVars, sorting, hist, eventVars>>

RaceSearch == SearchStarts(MaxRaceSearches)

\* the search with id k settles, whatever was started before or after it:
\* with the list of the server's search handler, or with an error
RaceSettles(k) ==
    /\ \E i \in 1..Len(calc.ids) :
          /\ calc.ids[i] = k
          /\ \E ok \in BOOLEAN :
                \E results \in {IF ok THEN calc.answers[i] ELSE <<>>} :
                   /\ SearchSettled(i, ok, results, calc.answers[i])
                   /\ calc' = [calc EXCEPT
                          !.ids = Without(@, i),
                          !.asked = Without(@, i),
                          !.answers = Without(@, i),
                          !.settled = Append(@, [id |-> k, ok |-> ok, results |-> results,
                                                 filters |-> calc.asked[i]])]
    /\ UNCHANGED <<dbVars, apiVars, pageVars, homeVars, sorting, eventVars>>

InitRace ==
    /\ active = [i \in EventIds |-> "TRUE"]
    /\ tz = 0
    /\ envelope = FALSE
    /\ ApiInit
    /\ PageInit
    /\ HomeIdle
    /\ SearchPageIdle
    /\ sorting = NoSorting
    /\ hist = NoHistory
    /\ evp = EventState0
    /\ evDom = EventDom0(FALSE)
    /\ evEnv = EventEnv0(JNull)
    /\ nav = Nav0(FALSE)
    /\ calc = NoRace

NextRace ==
    \/ RaceSearch
    \/ \E k \in 1..MaxRaceSearches : RaceSettles(k)

SpecSearchRace == InitRace /\ [][NextRace]_vars

\* every call of api.searchEvents settles: each attempt ends with a
\* response, a network error or the client's timeout, and the retries are
\* bounded
SpecSearchRaceFair ==
    SpecSearchRace /\ \A k \in 1..MaxRaceSearches : WF_vars(RaceSettles(k))

(***************************************************************************)
(* The home page's plain script: index.js                                  *)
(***************************************************************************)
\* displayEvents: the three panels are hidden, the container is shown and
\* filled with the cards
DisplayEvents(dom, events) ==
    [dom EXCEPT !.loadingState = FALSE, !.errorState = FALSE, !.emptyState = FALSE,
                !.eventsContainer = TRUE, !.rendered = events]

\* showNoEvents: the loading panel is hidden and the empty panel is shown
ShowNoEvents(dom) == [dom EXCEPT !.loadingState = FALSE, !.emptyState = TRUE]

\* showConnectionError: the loading panel is hidden and the error panel is
\* shown
ShowConnectionError(dom) == [dom EXCEPT !.loadingState = FALSE, !.errorState = TRUE]

\* loadEvents after its await: the response of GET /api/events is displayed
\* when it is an envelope with a list that is not empty, the empty panel is
\* shown for any other body, the error panel for a failure
LoadEventsSettled(dom, out) ==
    IF out.kind = "response" /\ Ok(out.resp)
    THEN IF out.resp.body.kind = "envelope" /\ out.resp.body.data.items # <<>>
         THEN DisplayEvents(dom, out.resp.body.data.items)
         ELSE ShowNoEvents(dom)
    ELSE ShowConnectionError(dom)

\* DOMContentLoaded: loadEvents runs up to its await
IndexLoaded ==
    /\ homePc = "new"
    /\ homePc' = "ready"
    /\ homeLoads' = homeLoads + 1
    /\ homeLast' = [homeLast EXCEPT !.event = "loadStart"]
    /\ UNCHANGED <<windowApi, homeWaited, home, homeDom>>
    /\ UNCHANGED <<dbVars, apiVars, pageVars, searchPageVars, sorting, restVars>>

\* retryLoading, the handler of the button in the error panel: loadEvents
\* runs up to its await
IndexRetry ==
    /\ homePc = "ready"
    /\ homeDom.errorState
    /\ homeLoads < MaxLoads
    /\ homeLoads' = homeLoads + 1
    /\ homeLast' = [homeLast EXCEPT !.event = "retry"]
    /\ UNCHANGED <<windowApi, homePc, homeWaited, home, homeDom>>
    /\ UNCHANGED <<dbVars, apiVars, pageVars, searchPageVars, sorting, restVars>>

\* the fetch of a loadEvents call settles
IndexLoadSettles ==
    /\ homeLoads > 0
    /\ homeLoads' = homeLoads - 1
    /\ \E out \in FetchOutcomes(Request(<<S_events>>, NoQuery)) :
          /\ homeDom' = LoadEventsSettled(homeDom, out)
          /\ homeLast' = [homeLast EXCEPT
                 !.event = IF out.kind = "response" /\ Ok(out.resp) THEN "loadOk"
                           ELSE "loadFail"]
    /\ UNCHANGED <<windowApi, homePc, homeWaited, home>>
    /\ UNCHANGED <<dbVars, apiVars, pageVars, searchPageVars, sorting, restVars>>

\* an event is published or withdrawn in the database
IndexRowChanges ==
    /\ \E i \in EventIds, a \in {"TRUE", "FALSE"} :
          /\ active[i] # a
          /\ active' = [active EXCEPT ![i] = a]
    /\ UNCHANGED <<tz, envelope>>
    /\ UNCHANGED <<apiVars, pageVars, homeVars, searchPageVars, sorting, restVars>>

\* the home page is requested, with index.js as its script
InitIndex ==
    /\ active \in [EventIds -> {"TRUE", "FALSE"}]
    /\ tz = 0
    /\ envelope \in BOOLEAN
    /\ ApiInit
    /\ PageInit
    /\ HomeIdle
    /\ SearchPageIdle
    /\ sorting = NoSorting
    /\ RestIdle

NextIndex ==
    \/ IndexLoaded
    \/ IndexRetry
    \/ IndexLoadSettles
    \/ IndexRowChanges

SpecIndex == InitIndex /\ [][NextIndex]_vars

(***************************************************************************)
(* The search page from init on, with api.searchEvents settling either way *)
(***************************************************************************)
\* calls of _performSearch from init on
MaxFlowSearches == 2

\* the history an earlier session left in local storage
EarlierHistory ==
    <<SearchEntry(Filters(JStr(<<>>), JStr(<<"h", "a", "l", "l">>), JStr(<<>>)), 1, 0)>>

\* what api.fetchCategories() resolves with when its request succeeds
FetchedCategories ==
    Continue("fetchCategories",
             MakeRequest([kind |-> "response",
                          resp |-> Serve(Request(<<S_categories>>, NoQuery), FALSE)]).data).value.items

\* the page's record: as for the race, and where init stands: awaiting the
\* categories, awaiting the events, or done
NoFlow ==
    [fn |-> "flow", init |-> "categories", started |-> 0, ids |-> <<>>, asked |-> <<>>,
     answers |-> <<>>, settled |-> <<>>]

\* the end of init once _loadInitialData has returned: _setupSearchHistory
\* and _restoreSearchState
InitEnds(st) ==
    /\ sp' = RestoreSearchState(st, storage)
    /\ hist' = [hist EXCEPT !.memory = SetupSearchHistory(hist.item), !.restored = TRUE]
    /\ calc' = [calc EXCEPT !.init = "done"]

\* _handleDataLoadError, and the end of init
InitLoadFails ==
    /\ spDom' = ShowSearchError(spDom)
    /\ InitEnds([sp EXCEPT !.isLoading = FALSE, !.hasError = TRUE])

\* _loadInitialData: api.fetchCategories settles
FlowCategoriesSettle ==
    /\ calc.init = "categories"
    /\ \E ok \in BOOLEAN :
          IF ok
          THEN /\ sp' = [sp EXCEPT !.categories = FetchedCategories]
               /\ calc' = [calc EXCEPT !.init = "events"]
               /\ UNCHANGED <<spDom, hist>>
          ELSE InitLoadFails
    /\ UNCHANGED <<storage, spPending, spLast>>
    /\ UNCHANGED <<dbVars, apiVars, pageVars, homeVars, sorting, eventVars>>

\* _loadInitialData: api.fetchEvents settles
FlowEventsSettle ==
    /\ calc.init = "events"
    /\ \E ok \in BOOLEAN :
          IF ok
          THEN /\ InitEnds([sp EXCEPT !.filteredEvents = FetchedEvents, !.isLoading = FALSE])
               /\ UNCHANGED spDom
          ELSE InitLoadFails
    /\ UNCHANGED <<storage, spPending, spLast>>
    /\ UNCHANGED <<dbVars, apiVars, pageVars, homeVars, sorting, eventVars>>

\* _handleFilterChange once the controls are all empty: the state is saved
\* and the results are cleared
FlowFilterEmptied ==
    /\ sp.currentFilters # NoFilters
    /\ LET st == [sp EXCEPT !.currentFilters = NoFilters]
       IN /\ sp' = st
          /\ storage' = SaveSearchState(st)
          /\ spLast' = [spLast EXCEPT !.event = "filterChange", !.requested = FALSE,
                                      !.saved = Criteria(st)]
    /\ spDom' = ClearResults(spDom)
    /\ UNCHANGED spPending
    /\ UNCHANGED <<dbVars, apiVars, pageVars, homeVars, sorting, restVars>>

\* init has cached the elements, added the listeners and awaits
\* _loadInitialData; local storage may hold the history of an earlier session
InitFlow ==
    /\ active = [i \in EventIds |-> "TRUE"]
    /\ tz = 0
    /\ envelope = FALSE
    /\ ApiInit
    /\ PageInit
    /\ HomeIdle
    /\ sp = [SearchState0 EXCEPT !.isLoading = TRUE]
    /\ spDom = SearchDom0
    /\ storage = NoItem
    /\ spPending = <<>>
    /\ spLast = NoSearchHandler
    /\ sorting = NoSorting
    /\ \E h \in {<<>>, EarlierHistory} :
          hist = [NoHistory EXCEPT !.item = IF h = <<>> THEN NoItem
                                            ELSE SetItem(StringifyHistory(h))]
    /\ evp = EventState0
    /\ evDom = EventDom0(FALSE)
    /\ evEnv = EventEnv0(JNull)
    /\ nav = Nav0(FALSE)
    /\ calc = NoFlow

FlowSearch == SearchStarts(MaxFlowSearches)

NextFlow ==
    \/ FlowCategoriesSettle
    \/ FlowEventsSettle
    \/ FlowSearch
    \/ FlowFilterEmptied
    \/ SpClearFilters
    \/ \E k \in 1..MaxFlowSearches : RaceSettles(k)

SpecSearchFlow == InitFlow /\ [][NextFlow]_vars

(***************************************************************************)
(* The controls of the home page: debounced listeners, views, destroy      *)
(***************************************************************************)
\* the delays of the debounced listeners of _setupEventListeners, in ms
searchDelay == 300

resizeDelay == 250

\* _handleResize: isMobile = width < 768
mobileWidth == 768

\* window.innerWidth
Widths == {500, 1024}

\* ms the clock runs
MaxClock == 500

\* input events on the search input
MaxInputs == 2

\* resizes of the window
MaxResizes == 2

\* what is typed: a term of one event, a term of none
TypedQueries == {<<"p", "a", "r", "k">>, <<"z", "z">>}

\* a listener made by Utils.debounce: attached while the element has it,
\* armed while its timeoutId is pending, due at the clock's ms
NewListener == [attached |-> TRUE, armed |-> FALSE, due |-> 0]

\* Utils.debounce's returned function, called by an event on an element that
\* has the listener: clearTimeout, setTimeout(func, delay)
Debounced(l, delay, clock) ==
    IF l.attached THEN [l EXCEPT !.armed = TRUE, !.due = clock + delay] ELSE l

IsDue(l, clock) == l.armed /\ l.due <= clock

\* the controls: the clock, the window's width, the value of the search
\* input, the debounced listeners (outer: on #search-input, from
\* _setupEventListeners; inner: on the .search-input that
\* _renderSearchControls puts into it, one more with every rendered list;
\* resize: on the window), the click listeners of the view options, the
\* input events and resizes so far, the time of the last input event, the runs of
\* _handleSearch, and whether destroy() was called and a debounced handler
\* ran after it
Controls0(w) ==
    [fn |-> "controls", clock |-> 0, width |-> w, typed |-> <<>>,
     outer |-> NewListener, inner |-> <<NewListener>>, resize |-> NewListener,
     viewOptions |-> TRUE, inputs |-> 0, resizes |-> 0, lastInput |-> 0, calls |-> <<>>,
     destroyed |-> FALSE, late |-> FALSE]

\* _setView
SetView(st, dom, view) ==
    IF st.currentView = view THEN [st |-> st, dom |-> dom]
    ELSE LET next == [st EXCEPT !.currentView = view]
         IN [st |-> next, dom |-> RenderEvents(dom, next)]

\* _handleResize
HandleResize(st, dom, width) ==
    IF width < mobileWidth /\ st.currentView = "grid" THEN SetView(st, dom, "list")
    ELSE [st |-> st, dom |-> dom]

\* an input event on the .search-input of the rendered controls: its
\* debounced listeners are called, then, the event bubbling, the one of
\* #search-input
CtlInput ==
    /\ calc.inputs < MaxInputs
    /\ \E q \in TypedQueries :
          calc' = [calc EXCEPT
              !.typed = q,
              !.inner = [i \in 1..Len(@) |-> Debounced(@[i], searchDelay, calc.clock)],
              !.outer = Debounced(@, searchDelay, calc.clock),
              !.inputs = @ + 1,
              !.lastInput = calc.clock]
    /\ UNCHANGED <<dbVars, apiVars, pageVars, homeVars, searchPageVars, sorting, hist, eventVars>>

\* _handleSearch, called by a debounced listener with the event it kept:
\* event.target.value is read now; a rendered list renders the controls,
\* and _renderSearchControls adds another debounced listener
HandleSearchLater(c) ==
    LET st == Refiltered([home EXCEPT !.searchQuery = Trim(c.typed)])
    IN /\ home' = st
       /\ homeDom' = RenderDynamicContent(homeDom, st)
       /\ homeLast' = [homeLast EXCEPT !.event = "search"]
       /\ calc' = [c EXCEPT
              !.calls = Append(@, [at |-> c.clock, query |-> Trim(c.typed)]),
              !.inner = IF st.hasError \/ st.filteredEvents = <<>> THEN @
                        ELSE Append(@, NewListener),
              !.viewOptions = IF st.hasError \/ st.filteredEvents = <<>> THEN @ ELSE TRUE,
              !.late = c.destroyed]

\* the timer of a debounced listener of the search input fires: those of
\* the input itself in the order they were set, then that of #search-input
CtlSearchTimerFires ==
    /\ \/ \E i \in 1..Len(calc.inner) :
             /\ IsDue(calc.inner[i], calc.clock)
             /\ \A j \in 1..(i - 1) : ~IsDue(calc.inner[j], calc.clock)
             /\ HandleSearchLater([calc EXCEPT !.inner[i].armed = FALSE])
       \/ /\ \A j \in 1..Len(calc.inner) : ~IsDue(calc.inner[j], calc.clock)
          /\ IsDue(calc.outer, calc.clock)
          /\ HandleSearchLater([calc EXCEPT !.outer.armed = FALSE])
    /\ UNCHANGED <<windowApi, homePc, homeWaited, homeLoads>>
    /\ UNCHANGED <<dbVars, apiVars, pageVars, searchPageVars, sorting, hist, eventVars>>

\* the window is resized
CtlResize ==
    /\ calc.resizes < MaxResizes
    /\ \E w \in Widths \ {calc.width} :
          calc' = [calc EXCEPT !.width = w, !.resizes = @ + 1,
                               !.resize = Debounced(@, resizeDelay, calc.clock)]
    /\ UNCHANGED <<dbVars, apiVars, pageVars, homeVars, searchPageVars, sorting, hist, eventVars>>

\* the timer of the debounced resize listener fires: _handleResize
CtlResizeTimerFires ==
    /\ IsDue(calc.resize, calc.clock)
    /\ LET r == HandleResize(home, homeDom, calc.width)
       IN home' = r.st /\ homeDom' = r.dom
    /\ calc' = [calc EXCEPT !.resize.armed = FALSE, !.late = calc.destroyed]
    /\ UNCHANGED <<windowApi, homePc, homeWaited, homeLoads, homeLast>>
    /\ UNCHANGED <<dbVars, apiVars, pageVars, searchPageVars, sorting, hist, eventVars>>

\* a click on a view option of the rendered controls
CtlViewClick ==
    /\ calc.viewOptions
    /\ \E view \in {"grid", "list"} :
          LET r == SetView(home, homeDom, view)
          IN /\ view # home.currentView
             /\ home' = r.st /\ homeDom' = r.dom
    /\ UNCHANGED <<windowApi, homePc, homeWaited, homeLoads, homeLast, calc>>
    /\ UNCHANGED <<dbVars, apiVars, pageVars, searchPageVars, sorting, hist, eventVars>>

\* HomePage.destroy: _cleanupEventListeners removes the listeners; the
\* timers of the debounced ones stay as they are
CtlDestroy ==
    /\ ~calc.destroyed
    /\ calc' = [calc EXCEPT
           !.destroyed = TRUE,
           !.outer.attached = FALSE,
           !.inner = [i \in 1..Len(@) |-> [@[i] EXCEPT !.attached = FALSE]],
           !.resize.attached = FALSE,
           !.viewOptions = FALSE]
    /\ UNCHANGED <<dbVars, apiVars, pageVars, homeVars, searchPageVars, sorting, hist, eventVars>>

\* 50 ms pass; a timer that is due fires before more time passes
CtlTick ==
    /\ calc.clock < MaxClock
    /\ ~IsDue(calc.outer, calc.clock) /\ ~IsDue(calc.resize, calc.clock)
    /\ \A i \in 1..Len(calc.inner) : ~IsDue(calc.inner[i], calc.clock)
    /\ calc' = [calc EXCEPT !.clock = @ + 50]
    /\ UNCHANGED <<dbVars, apiVars, pageVars, homeVars, searchPageVars, sorting, hist, eventVars>>

\* init is through and the first load succeeded: the events and the
\* controls are rendered, in the view of the constructor, whatever the
\* width of the window
InitControls ==
    /\ active = [i \in EventIds |-> "TRUE"]
    /\ tz = 0
    /\ envelope = FALSE
    /\ ApiInit
    /\ PageInit
    /\ windowApi = TRUE
    /\ homePc = "ready"
    /\ homeWaited = 0
    /\ home = Refiltered([HomeState0 EXCEPT !.events = FetchedEvents, !.isLoading = FALSE])
    /\ homeDom = RenderDynamicContent([HomeDom0 EXCEPT !.cached = TRUE], home)
    /\ homeLoads = 0
    /\ homeLast = [NoHandler EXCEPT !.event = "loadOk", !.fetched = FetchedEvents]
    /\ SearchPageIdle
    /\ sorting = NoSorting
    /\ hist = NoHistory
    /\ evp = EventState0
    /\ evDom = EventDom0(FALSE)
    /\ evEnv = EventEnv0(JNull)
    /\ nav = Nav0(FALSE)
    /\ \E w \in Widths : calc = Controls0(w)

NextControls ==
    \/ CtlInput
    \/ CtlSearchTimerFires
    \/ CtlResize
    \/ CtlResizeTimerFires
    \/ CtlViewClick
    \/ CtlDestroy
    \/ CtlTick

SpecHomeControls == InitControls /\ [][NextControls]_vars

(***************************************************************************)
(* Properties of the API client and the server                             *)
(***************************************************************************)
Settled == pc \in {"resolved", "rejected"}

AttemptOk(out) == out.kind = "response" /\ out.resp.status \in 200..299

NetworkFailure(out) == out.kind = "network"

ServerFailure(out) == out.kind = "response" /\ out.resp.status \in 500..599

ClientFailure(out) == out.kind = "response" /\ out.resp.status \in 400..499

\* C1: a call whose attempts fail with a network-level error or an HTTP 5xx
\* status is retried up to 3 times: when it rejects on such a failure, 4
\* attempts have been issued.
C1_RetriesNetworkAndServerErrors ==
    (pc = "rejected" /\ (NetworkFailure(last) \/ ServerFailure(last))) => attempts = 4

\* C2: an attempt that fails with an HTTP 4xx status ends the call: it is
\* rejected at once with an error, no attempt and no backoff delay follows
\* the failure, a first attempt that fails so is the only attempt, and
\* fetchEventById's 404 rejects with the not-found error.
C2_ClientErrorNotRetried ==
    ClientFailure(last) =>
        /\ pc \in {"rejected", "delivered"}
        /\ inflight = 0
        /\ result = NoResult
        /\ error.name # "none"
        /\ attempts = Len(failedAt)
        /\ Len(delays) = attempts - 1
        /\ now = failedAt[Len(failedAt)]
        /\ retryCount = 0 => (attempts = 1 /\ delays = <<>>)
        /\ (op = "fetchEventById" /\ last.resp.status = 404) => error.message = M_NotFound

C2_Witness ==
    /\ op = "fetchEventById"
    /\ pc = "rejected"
    /\ last.kind = "response" /\ last.resp.status = 404
    /\ attempts = 1

\* C3: retries are sequential with exponential backoff: the delays slept
\* are 1000, 2000, 4000 ms in this order, attempt n+1 is issued exactly
\* when attempt n has failed and its delay has elapsed, and at most one
\* attempt of the call is in flight.
C3_SequentialBackoff ==
    /\ inflight <= 1
    /\ (inflight = 1) <=> (pc = "inflight")
    /\ Len(delays) <= 3
    /\ \A n \in 1..Len(delays) : delays[n] = <<1000, 2000, 4000>>[n]
    /\ Len(issuedAt) = attempts
    /\ \A n \in 2..Len(issuedAt) :
          /\ Len(failedAt) >= n - 1
          /\ issuedAt[n] = failedAt[n - 1] + delays[n - 1]
          /\ issuedAt[n] > issuedAt[n - 1]

C3_Witness == delays = <<1000, 2000, 4000>> /\ pc = "inflight" /\ attempts = 4

\* C4: a settled call has resolved if its last attempt succeeded and has
\* rejected with an error otherwise.
C4_SettlesByLastAttempt ==
    (Settled /\ attempts >= 1) =>
        /\ (pc = "resolved") <=> AttemptOk(last)
        /\ (pc = "rejected") => error.name # "none"

\* the ids the documentation accepts
PositiveIntegerId(id) == JsTruthy(id) /\ IsPositiveInteger(JsNumber(id))

\* C5: fetchEventById issues a request exactly for the ids that are
\* positive integers, and rejects every other id before any request.
C5_OnlyPositiveIntegerIds ==
    (op = "fetchEventById") =>
        /\ (attempts >= 1) <=> PositiveIntegerId(arg.id)
        /\ ~PositiveIntegerId(arg.id) => (pc \in {"rejected", "delivered"} /\ error.name # "none")

\* the criteria as the documentation accepts them
DateCriterion(f) == f.date.k = "string" /\ ParseIsoDay(f.date.s) # <<>>

LocationCriterion(f) == f.location.k = "string" /\ Trim(f.location.s) # <<>>

CategoryCriterion(f) == JsTruthy(f.category) /\ IsPositiveInteger(JsNumber(f.category))

AllActiveRows == Rows({i \in EventIds : active[i] = "TRUE"})

\* C6: searchEvents puts a criterion in the query exactly when it is
\* present and valid (the date parses, the location is not blank and is
\* sent trimmed, the category is a positive integer), and a search with no
\* valid criterion is answered with every active event.
C6_OnlyValidCriteriaSent ==
    (op = "searchEvents" /\ attempts >= 1) =>
        LET f == arg.filters
            q == endpoint.query
        IN /\ endpoint.path = <<S_events, S_search>>
           /\ q.date = (IF DateCriterion(f) THEN f.date ELSE Undefined)
           /\ q.location = (IF LocationCriterion(f) THEN JStr(Trim(f.location.s)) ELSE Undefined)
           /\ q.category = (IF CategoryCriterion(f) THEN JStr(JsString(f.category)) ELSE Undefined)
           /\ (q = NoQuery /\ AttemptOk(last)) =>
                 Extract(last.resp.body) = ArrayBody(AllActiveRows)

\* the payload of a body: the data of an envelope, or the body itself
PayloadOf(body) == IF body.kind = "envelope" THEN body.data ELSE body

\* C7: whether the body is a bare payload or {success, data}, the client
\* resolves with the validated payload: the list methods with the valid
\* records of the list, fetchEventById with the record.
C7_EnvelopeUnwrapped ==
    (attempts >= 1 /\ AttemptOk(last) /\ pc \in {"resolved", "rejected"}) =>
        LET payload == PayloadOf(last.resp.body)
        IN CASE op \in {"fetchEvents", "searchEvents"} ->
                  /\ pc = "resolved"
                  /\ Len(result.items) =
                        Cardinality({k \in 1..Len(payload.items) :
                                        ValidateEventData(payload.items[k]) # NullValue})
             [] op = "fetchCategories" ->
                  pc = "resolved" /\ Len(result.items) = Len(payload.items)
             [] op = "fetchEventById" ->
                  ValidateEventData(payload) # NullValue =>
                      (pc = "resolved" /\ result = ValidateEventData(payload))
             [] OTHER -> TRUE

\* a field that carries a value: not absent, not null, not empty, not zero
HasValue(x) ==
    /\ x.k \in {"string", "number", "timestamp"}
    /\ x.k = "string" => Len(x.s) > 0
    /\ x.k = "number" => (~x.v.nan /\ x.v.n # 0)

\* a record that has all of id, name, date-time and location
Complete(item) ==
    /\ item.kind = "object"
    /\ HasValue(item.fields.id) /\ HasValue(item.fields.name)
    /\ HasValue(item.fields.date_time) /\ HasValue(item.fields.location)

\* the positions of the complete records of a list, in order
RECURSIVE CompleteAt(_, _)
CompleteAt(items, k) ==
    IF k > Len(items) THEN <<>>
    ELSE (IF Complete(items[k]) THEN <<k>> ELSE <<>>) \o CompleteAt(items, k + 1)

\* C8: from any received list the list methods resolve with exactly the
\* records that have all of id, name, date-time and location, in the
\* received order and normalised (numeric id, text name and location, a
\* date); a record without them is dropped without failing the call, and a
\* missing category name becomes "Uncategorized".
C8_KeepsCompleteRecords ==
    (pc \in {"resolved", "delivered"} /\ last.kind = "response"
        /\ last.resp.body.kind = "array" /\ result.kind = "events") =>
        LET items == last.resp.body.items
            kept == CompleteAt(items, 1)
        IN /\ Len(result.items) = Len(kept)
           /\ \A j \in 1..Len(kept) :
                 LET r == items[kept[j]].fields
                     e == result.items[j]
                 IN /\ e.id = JsNumber(r.id) /\ ~e.id.nan
                    /\ e.name = JsonString(r.name)
                    /\ e.location = JsonString(r.location)
                    /\ r.date_time.k = "timestamp" => e.date_time = ValidDate(r.date_time.t)
                    /\ e.category_name = (IF HasValue(r.category_name)
                                          THEN JsonString(r.category_name)
                                          ELSE S_Uncategorized)

C8_Witness ==
    /\ pc = "resolved"
    /\ Len(last.resp.body.items) = 2
    /\ ~Complete(last.resp.body.items[1])
    /\ Complete(last.resp.body.items[2])
    /\ ~HasValue(last.resp.body.items[2].fields.category_name)
    /\ Len(result.items) = 1
    /\ result.items[1].category_name = S_Uncategorized

\* C9: a request to /api/events/search is handled by the search handler,
\* never by the single-event route.
C9_SearchRouted ==
    (last.kind = "response" /\ endpoint.path = <<S_events, S_search>>) =>
        last.resp.handler = "search"

\* C10: every event the list, search and get-by-id endpoints return, every
\* event a page controller holds and every event the search script shows
\* (also after its client-side fallback) is an active row.
C10_OnlyActiveExposed ==
    /\ \A k \in 1..Len(held) :
          /\ held[k].is_active
          /\ \E i \in EventIds : NumEq(held[k].id, Num(i, 1)) /\ active[i] = "TRUE"
    /\ \A k \in 1..Len(displayed) :
          \E i \in EventIds :
              NumEq(JsNumber(displayed[k].fields.id), Num(i, 1)) /\ active[i] = "TRUE"
    /\ (AttemptOk(last) /\ last.resp.handler \in {"listEvents", "search", "eventById"}) =>
          LET payload == PayloadOf(last.resp.body)
              recs == IF payload.kind = "array" THEN payload.items ELSE <<payload>>
          IN \A k \in 1..Len(recs) :
                \E i \in EventIds :
                    NumEq(JsNumber(recs[k].fields.id), Num(i, 1)) /\ active[i] = "TRUE"

C10_Witness ==
    /\ \E i \in EventIds : active[i] # "TRUE"
    /\ pc = "delivered"
    /\ held # <<>>

(***************************************************************************)
(* Properties of the page controllers                                      *)
(***************************************************************************)
\* how often x occurs in s
Count(s, x) == Cardinality({i \in 1..Len(s) : s[i] = x})

SameElements(s, t) ==
    /\ Len(s) = Len(t)
    /\ \A i \in 1..Len(s) : Count(s, s[i]) = Count(t, s[i])

\* no element is behind one that compares greater under the key
OrderedBy(s, sortBy, desc) ==
    \A i, j \in 1..Len(s) :
        i < j => IF desc
                 THEN ~ValueLess(SortValue(s[i], sortBy), SortValue(s[j], sortBy))
                 ELSE ~ValueLess(SortValue(s[j], sortBy), SortValue(s[i], sortBy))

NoTies(s, sortBy) ==
    \A i, j \in 1..Len(s) :
        i # j => \/ ValueLess(SortValue(s[i], sortBy), SortValue(s[j], sortBy))
                 \/ ValueLess(SortValue(s[j], sortBy), SortValue(s[i], sortBy))

Reverse(s) == [i \in 1..Len(s) |-> s[Len(s) + 1 - i]]

SortedWell(asc, desc, list, sortBy) ==
    /\ SameElements(asc, list) /\ SameElements(desc, list)
    /\ OrderedBy(asc, sortBy, FALSE) /\ OrderedBy(desc, sortBy, TRUE)
    /\ NoTies(list, sortBy) => desc = Reverse(asc)

\* C14: for every list, key and direction both controllers' sorts return a
\* list with the elements of the argument, as often as they occur in it,
\* ordered by the key; when no two elements tie on the key the descending
\* result is the reverse of the ascending one.
C14_SortIsReordering ==
    sorting.done =>
        /\ SortedWell(sorting.homeAsc, sorting.homeDesc, sorting.events, sorting.sortBy)
        /\ SortedWell(sorting.searchAsc, sorting.searchDesc, sorting.events, sorting.sortBy)

\* a list of three events without ties on the name has been sorted both ways
C14_Witness ==
    /\ sorting.done
    /\ Len(sorting.events) = 3
    /\ sorting.sortBy = S_name
    /\ NoTies(sorting.events, S_name)
    /\ sorting.homeAsc # sorting.events
    /\ sorting.homeDesc # sorting.homeAsc

HomeReady ==
    /\ homeDom.eventsContainer /\ ~homeDom.errorState
    /\ ~homeDom.emptyState /\ ~homeDom.loadingState

HomeEmpty ==
    /\ homeDom.emptyState /\ ~homeDom.errorState
    /\ ~homeDom.eventsContainer /\ ~homeDom.loadingState

HomeError ==
    /\ homeDom.errorState /\ ~homeDom.emptyState
    /\ ~homeDom.eventsContainer /\ ~homeDom.loadingState

\* C11: when a load of the home page has just ended, the page is in the
\* state of that load's outcome: ready if the fetch succeeded and the
\* filtered list is not empty, empty if it succeeded with no results, error
\* if it failed -- whatever other loads were started meanwhile.
C11_LoadEndsInOwnOutcome ==
    /\ homeLast.event = "loadOk" =>
          IF home.filteredEvents # <<>> THEN HomeReady ELSE HomeEmpty
    /\ homeLast.event = "loadFail" => HomeError

\* C12: when init gave up waiting for the API client the page is in its
\* error state: error flag set, loading flag cleared, an error panel shown.
C12_InitFailureShowsError ==
    homePc = "failed" =>
        /\ home.hasError
        /\ ~home.isLoading
        /\ homeDom.errorState \/ homeDom.initError

\* the query occurs in one of the four fields, case-insensitively
QueryMatches(e, q) ==
    \E f \in {e.name, e.location, e.short_description, e.category_name} :
        Includes(ToLowerCase(f), ToLowerCase(q))

Matching(list, q) == SelectSeq(list, LAMBDA e : QueryMatches(e, q))

\* C13: whenever the home page shows its list, the list holds exactly the
\* fetched events that contain the current query in their name, location,
\* short description or category name (all of them for the empty query),
\* ordered by the current sort key and direction; whenever it shows the
\* empty panel no fetched event matches; after a successful load, a search,
\* a clear or a sort change of a page that is neither loading nor in error
\* one of the two is shown; and the sort is date ascending until the user
\* changes it.
C13_VisibleListIsFilteredSorted ==
    LET expected == Matching(homeLast.fetched, home.searchQuery)
    IN /\ homeDom.eventsContainer =>
             /\ SameElements(homeDom.rendered, expected)
             /\ OrderedBy(homeDom.rendered, home.sortBy, home.sortOrder = S_desc)
       /\ homeDom.emptyState => expected = <<>>
       /\ (homeLast.event \in {"loadOk", "search", "clear", "sort"}
           /\ ~home.hasError /\ ~home.isLoading) =>
             homeDom.eventsContainer \/ homeDom.emptyState
       /\ ~homeLast.sorts => home.sortBy = S_date /\ home.sortOrder = S_asc

\* a search that matches one event by its category name only, shown sorted
\* by name, descending, and one that matches two events
C13_Witness ==
    /\ homeLast.event = "search"
    /\ homeDom.eventsContainer
    /\ home.sortBy = S_name /\ home.sortOrder = S_desc
    /\ home.searchQuery = <<"p", "a", "r", "k">>
    /\ Len(homeDom.rendered) = 2
    /\ Len(homeLast.fetched) = 2

\* C15: sorting never reorders the controller's stored source list, and
\* events that tie on the sort key are shown in the order in which they
\* were fetched.
C15_SourceOrderKept ==
    homeLast.fetched # <<>> =>
        /\ home.events = homeLast.fetched
        /\ \A i, j \in 1..Len(home.filteredEvents) :
              LET a == home.filteredEvents[i]
                  b == home.filteredEvents[j]
                  pos(x) == CHOOSE k \in 1..Len(homeLast.fetched) : homeLast.fetched[k] = x
              IN (i < j /\ Compare(a, b, home.sortBy, home.sortOrder) = 0) => pos(a) < pos(b)


\* a filter value that is empty or only white space
Blank(x) == x.k # "string" \/ \A i \in 1..Len(x.s) : IsSpace(x.s[i])

FilterValues(f) == {f.date, f.location, f.category}

\* no panel of the search results is visible
ResultsCleared == ~spDom.searchError /\ ~spDom.noResults /\ ~spDom.resultsContainer

\* C16 as the specification words it: a change of a filter starts a
\* server-side search if and only if at least one filter is a non-empty
\* string after the change.
C16_SearchIffNonEmpty ==
    spLast.event = "filterChange" =>
        (spLast.requested <=> \E x \in FilterValues(sp.currentFilters) : x.s # <<>>)

\* C16: a change of the date, location or category filter starts a
\* server-side search if and only if at least one filter is not blank
\* (non-empty once white space is trimmed) after the change; when every
\* filter is blank after an edit, or the filters are cleared, the result
\* panels are hidden and no request is issued.
C16_SearchIffActive ==
    /\ spLast.event = "filterChange" =>
          (spLast.requested <=> \E x \in FilterValues(sp.currentFilters) : ~Blank(x))
    /\ spLast.event = "filterChange" /\ spLast.requested =>
          /\ spPending # <<>>
          /\ spPending[Len(spPending)] = SearchEndpoint(sp.currentFilters)
    /\ /\ spLast.event \in {"filterChange", "clear"}
       /\ \A x \in FilterValues(sp.currentFilters) : Blank(x)
       => ~spLast.requested /\ ResultsCleared
    /\ spLast.event = "clear" =>
          /\ sp.currentFilters = NoFilters
          /\ sp.searchResults = <<>>
          /\ ~spLast.requested

\* C16 witness: the location is edited to a single space while the other
\* filters are empty, and no search starts.
C16_Witness ==
    /\ spLast.event = "filterChange"
    /\ ~spLast.requested
    /\ sp.currentFilters.location.s = <<" ">>
    /\ spPending = <<>>
    /\ ResultsCleared

\* the unfiltered list can be fetched
ListAvailable == \E out \in FetchOutcomes(Request(<<S_events>>, NoQuery)) : MakeRequest(out).ok

\* the events the search page shows
SpShown == IF spDom.resultsContainer THEN spDom.rendered ELSE <<>>

\* C17: when the server search fails and the unfiltered list can be
\* fetched, the search controller fetches the list, filters it locally and
\* shows exactly the events the server search would have returned, without
\* entering the error state.
C17_FallbackShowsServerResults ==
    spLast.event = "searchFailed" /\ ListAvailable =>
        /\ spLast.list = "ok"
        /\ ~spDom.searchError
        /\ SameElements(SpShown, spLast.expected)

\* C18: a search surfaces the error state only if both the server search
\* and the fallback's fetch of the list failed.
C18_ErrorOnlyIfBothFail ==
    spDom.searchError => spLast.search = "failed" /\ spLast.list = "failed"

\* C19: persisting the search state and restoring it from local storage
\* yields the filters, query, sort key and sort direction that were
\* persisted: what a new controller restores from the stored item is the
\* criteria object of the last _saveSearchState.
C19_RestoreYieldsPersisted ==
    /\ storage.present =>
          Criteria(RestoreSearchState(SearchState0, storage)) = spLast.saved
    /\ spLast.event = "restored" /\ storage.present => Criteria(sp) = spLast.saved

\* C19 witness: a location with a quote and a backslash and a sort other
\* than the default were persisted, and a new controller restored them.
C19_Witness ==
    /\ spLast.event = "restored"
    /\ storage.present
    /\ sp.currentFilters.location.s = <<"p", "\"", "\\">>
    /\ sp.currentFilters.date.s # <<>>
    /\ sp.sortBy = S_name
    /\ sp.sortOrder = S_asc

\* C20: after every filter change, clear action and sort change the state
\* in local storage equals the controller's current filters, query, sort
\* key and sort direction.
C20_StorageTracksState ==
    spLast.event \in {"filterChange", "clear", "sort"} =>
        /\ storage.present
        /\ Criteria(RestoreSearchState(SearchState0, storage)) = Criteria(sp)


\* the first n elements of a sequence
FirstN(s, n) == SubSeq(s, 1, IF Len(s) < n THEN Len(s) ELSE n)

\* the entries are in the order of their timestamps, newest first
NewestFirst(h) ==
    \A i \in 1..Len(h), j \in 1..Len(h) :
        i < j => ~StrLess(h[i].timestamp.s, h[j].timestamp.s)

MissingOrNonNumeric(p) == ~JsTruthy(p) \/ StringToNumber(p.s).nan

\* C22: once init has handled a URL whose id is missing or non-numeric, the
\* error panel is shown with a message that is none of the not-found, the
\* connectivity and the generic message, and fetchEventById was never called.
C22_InvalidIdDistinctMessage ==
    (evp.pc = "ready" /\ MissingOrNonNumeric(evEnv.url)) =>
        /\ evDom.error
        /\ ~evDom.loading
        /\ ~evDom.details
        /\ evDom.errorText \notin {T_NotFound, T_Connectivity, T_Generic}
        /\ evEnv.fetches = 0

\* the part of C22 that the code keeps: the error panel and no fetch, also
\* for the ids whose parseInt is 0 or NaN
C22_InvalidIdNeverFetches ==
    (evp.pc = "ready" /\ ~JsTruthy(GetEventIdFromURL(evEnv.url))) =>
        /\ evDom.error
        /\ ~evDom.loading
        /\ ~evDom.details
        /\ evp.hasError
        /\ evp.errorMessage = M_InvalidId
        /\ evEnv.fetches = 0
        /\ evEnv.loads = <<>>

\* C23: once destroy() has run no progress timer is active and no tick of a
\* progress timer has fired since.
C23_NoTimerAfterDestroy ==
    evp.destroyed => (evEnv.timers = {} /\ ~evEnv.lateTick)

\* the part of C23 that the code keeps: destroy() clears the timer that
\* state.progressInterval names at that moment
C23_DestroyClearsCurrentTimer ==
    [][(~evp.destroyed /\ evp'.destroyed) => evp.progressInterval \notin evEnv'.timers]_vars


\* C24: while the registration dialog is open and Tab or Shift+Tab has been
\* pressed since it opened, the focused element is one of the dialog's
\* focusable elements.
C24_FocusStaysInDialog ==
    (evp.isModalOpen /\ evEnv.tabbed) => InDialog(evDom.focus)

\* the part of C24 that the code keeps: with the listeners in place and the
\* focus inside the open dialog, a Tab or Shift+Tab leaves it inside, so the
\* last element wraps to the first and the first to the last
C24_TrapWrapsInside ==
    [][(/\ evp.isModalOpen
        /\ evp.listening
        /\ InDialog(evDom.focus)
        /\ evp' = evp
        /\ nav' = nav
        /\ evEnv'.focusTimers = evEnv.focusTimers) => InDialog(evDom'.focus)]_vars

\* C25: after the dialog was closed by Escape, the close button or the
\* overlay, and until the user presses Tab or opens it again, the dialog is
\* hidden and the focus is on the register button that opened it; and
\* Escape is never ignored while the dialog is shown.
C25_FocusReturnsToOpener ==
    /\ evEnv.closed => (evDom.modalHidden /\ ~evp.isModalOpen /\ evDom.focus = "registerButton")
    /\ ~evEnv.escapeIgnored

\* the part of C25 that the code keeps: the step that closes the dialog
\* hides it and puts the focus on the register button when that is rendered
C25_CloseFocusesOpener ==
    [][(evp.isModalOpen /\ ~evp'.isModalOpen /\ Rendered(evDom, evp, nav, "registerButton")) =>
          (evDom'.modalHidden /\ evDom'.focus = "registerButton")]_vars

\* C26: the page's scroll is locked in every state in which the dialog is
\* open.
C26_ScrollLockedWhileOpen ==
    evp.isModalOpen => evDom.overflow = "hidden"

\* the part of C26 that the code keeps: the step that opens the dialog locks
\* the scroll and the step that closes it unlocks it
C26_OpenLocksCloseUnlocks ==
    [][/\ (~evp.isModalOpen /\ evp'.isModalOpen) => evDom'.overflow = "hidden"
       /\ (evp.isModalOpen /\ ~evp'.isModalOpen) => evDom'.overflow = ""]_vars


\* the exact value of round(current / goal * 100) clamped to 100, for a
\* goal above 0
ExactProgress(current, goal) ==
    LET r == MathRound(current.n * goal.d * 100, current.d * goal.n)
    IN IF r > 100 THEN 100 ELSE r

RowOf(item) == EventRow(CHOOSE i \in EventIds : Num(i, 1) = item.fields.id.v)

\* the event satisfies every criterion that is not empty: its day is the
\* date, its location or its name contains the term whatever the case, its
\* category is the one asked for
Satisfies(item, f) ==
    LET r == RowOf(item)
    IN /\ f.date.s # <<>> => DayOf(r.date_time) = ParseIsoDay(f.date.s)
       /\ f.location.s # <<>> =>
             \/ Includes(ToLowerCase(r.location), ToLowerCase(f.location.s))
             \/ Includes(ToLowerCase(r.name), ToLowerCase(f.location.s))
       /\ f.category.s # <<>> => r.category_id = DigitsVal(f.category.s)

\* the same, the day being the UTC day of the instant the list carries
SatisfiesUtc(item, f) ==
    LET r == RowOf(item)
    IN /\ f.date.s # <<>> => DayOf(item.fields.date_time.t) = ParseIsoDay(f.date.s)
       /\ f.location.s # <<>> =>
             \/ Includes(ToLowerCase(r.location), ToLowerCase(f.location.s))
             \/ Includes(ToLowerCase(r.name), ToLowerCase(f.location.s))
       /\ f.category.s # <<>> => r.category_id = DigitsVal(f.category.s)

\* C28: the filter returns the events of the list that satisfy every
\* non-empty criterion, in the order of the list, and the whole list when
\* every criterion is empty.
C28_FilterKeepsExactlyMatching ==
    /\ calc.fn # "thrown"
    /\ calc.fn = "filtered" =>
          /\ calc.once = SelectSeq(calc.events, LAMBDA x : Satisfies(x, calc.filters))
          /\ calc.filters = NoFilters => calc.once = calc.events

\* the part of C28 that the code keeps: the same with the day taken from
\* the UTC form of the instant
C28_FilterKeepsUtcMatching ==
    /\ calc.fn # "thrown"
    /\ calc.fn = "filtered" =>
          /\ calc.once = SelectSeq(calc.events, LAMBDA x : SatisfiesUtc(x, calc.filters))
          /\ calc.filters = NoFilters => calc.once = calc.events

\* C29: filtering the filtered list again with the same criteria returns
\* the same list.
C29_FilterIdempotent ==
    calc.fn = "filtered" => calc.twice = calc.once

\* C29 witness: a list of three events was filtered by a criterion that
\* removed one of them and kept two.
C29_Witness ==
    /\ calc.fn = "filtered"
    /\ Len(calc.events) = 3
    /\ Len(calc.once) = 2
    /\ calc.twice = calc.once
    /\ calc.filters # NoFilters


\* the response that arrived last
LastSettled == calc.settled[Len(calc.settled)]

\* the ids of the searches in flight, and of those that have settled
RaceInFlight == {calc.ids[i] : i \in 1..Len(calc.ids)}

RaceDone == {calc.settled[i].id : i \in 1..Len(calc.settled)}

\* once every search has settled, the page is what the last response made
\* it: not loading; for a list, the list stored, and shown sorted (or the
\* no-results panel for an empty one); for an error, the error panel
LastResponseShown ==
    (calc.settled # <<>> /\ spPending = <<>>) =>
        /\ ~sp.isSearching
        /\ IF LastSettled.ok
           THEN /\ sp.searchResults = LastSettled.results
                /\ SpShown = SortEvents(LastSettled.results, sp.sortBy, sp.sortOrder)
                /\ ~spDom.searchError
                /\ spDom.noResults = (LastSettled.results = <<>>)
           ELSE /\ spDom.searchError
                /\ ~spDom.noResults
                /\ SpShown = <<>>

VisiblePanels(dom) ==
    {p \in {"loading", "error", "empty", "events"} :
        \/ p = "loading" /\ dom.loadingState
        \/ p = "error" /\ dom.errorState
        \/ p = "empty" /\ dom.emptyState
        \/ p = "events" /\ dom.eventsContainer}

\* C31: at most one of the loading, error, empty and event-list panels of
\* the home page is visible.
C31_OnePanelVisible == Cardinality(VisiblePanels(homeDom)) <= 1

\* what index.js keeps of C31: the loading panel is never visible together
\* with another panel
C31_LoadingAlone ==
    homeDom.loadingState => VisiblePanels(homeDom) = {"loading"}

\* the event the page holds has a fundraising goal
LoadedWithGoal == evp.event # NullValue /\ NumLess(Num(0, 1), evp.event.e.goal_amount)

\* C32: a progress timer is active only while the event loaded has
\* goal_amount > 0, and at most one progress timer is active (each tick
\* changing only the progress shown: C32_TickOnlyDisplay).
C32_TimerOnlyWithGoal ==
    /\ evEnv.timers # {} => LoadedWithGoal
    /\ Cardinality(evEnv.timers) <= 1

\* what the code keeps of C32: at most one progress timer is active, it is
\* the one of state.progressInterval, and there is none before an event
\* with a goal was loaded
C32_AtMostOneTimer ==
    /\ Cardinality(evEnv.timers) <= 1
    /\ evEnv.timers \subseteq {evp.progressInterval}
    /\ evEnv.timers # {} => evp.event # NullValue

\* what the code keeps of C32: a tick leaves the stored event, the state and
\* the panels as they are and changes at most the percentage of a progress
\* bar that is there
C32_TickOnlyDisplay ==
    [][evEnv'.ticks # evEnv.ticks =>
          /\ evp' = evp
          /\ evDom' = [evDom EXCEPT !.progress.pct = evDom'.progress.pct]
          /\ ~evDom.progress.bar => evDom' = evDom]_vars

\* C33: the results list and the no-results panel of the search page are
\* visible only while hasSearched is true, a search in flight at a
\* clear-filters included (the message of a search without results naming
\* the active filters: C33_MessageNamesFilters).
C33_ShownOnlyIfSearched ==
    ~sp.hasSearched => ~spDom.resultsContainer /\ ~spDom.noResults

\* what the code keeps of C33: the no-results panel comes up with a message
\* that enumerates the filters active when it is rendered
C33_MessageNamesFilters ==
    [][spDom'.noResults /\ ~spDom.noResults =>
          /\ spDom'.message = ActiveFilterNames(sp'.currentFilters, sp'.categories)
          /\ sp'.currentFilters # NoFilters => spDom'.message # <<>>]_vars

\* C34: after a page controller's destroy() no debounced handler runs: a
\* pending timer of the search input or of the resize listener is cleared
\* and never fires.
C34_NoHandlerAfterDestroy == ~calc.late

\* the timers of the debounced listeners that are pending
PendingTimers(c) ==
    {<<"inner", i>> : i \in {j \in 1..Len(c.inner) : c.inner[j].armed}} \cup
    (IF c.outer.armed THEN {<<"outer", 1>>} ELSE {}) \cup
    (IF c.resize.armed THEN {<<"resize", 1>>} ELSE {})

\* what destroy() does not do: it leaves the pending timers as they are
C34_DestroyKeepsTimers ==
    [][calc'.destroyed /\ ~calc.destroyed => PendingTimers(calc') = PendingTimers(calc)]_vars

\* C35: while the window is narrower than 768px the home page's render mode
\* is list, after any sequence of initial load, resizes and view toggles.
C35_ListWhenNarrow ==
    calc.width < mobileWidth => home.currentView = "list" /\ homeDom.view = "list"

\* what the code keeps of C35: when the debounced resize handler runs in a
\* window narrower than 768px, the view is list afterwards and the events
\* are rendered as a list
C35_ResizeHandlerForcesList ==
    [][calc.resize.armed /\ ~calc'.resize.armed /\ calc.width < mobileWidth =>
          home'.currentView = "list" /\ homeDom'.view = "list"]_vars

\* where C35 fails without any resize: the first render is a grid whatever
\* the width, and a click on the grid option is taken at any width
C35_GridOnlyByInitOrClick ==
    [][home'.currentView = "grid" /\ home.currentView = "list" =>
          calc' = calc /\ calc.viewOptions]_vars

\* C36: a burst of input events on the home page's search input, each less
\* than 300 ms after the one before, makes the page re-filter exactly once:
\* 300 ms after the last event, with its value, and not during the burst.
C36_OnceAfterBurst ==
    \A i, j \in 1..Len(calc.calls) : calc.calls[i].at = calc.calls[j].at => i = j

\* what the code keeps of C36: on the live page _handleSearch runs only when
\* 300 ms have passed since the last input event, never during a burst, and
\* filters with the value the input has then, trimmed
C36_OnlyAfterQuiet ==
    [][Len(calc'.calls) > Len(calc.calls) /\ ~calc.destroyed =>
          /\ calc.clock = calc.lastInput + searchDelay
          /\ calc'.calls[Len(calc'.calls)].query = Trim(calc.typed)
          /\ home'.searchQuery = Trim(calc.typed)]_vars

\* what the code keeps of C36: a single debounced listener runs its handler
\* once for a burst: the listener of #search-input never runs twice at the
\* same time, and every event of a burst sets its timer anew
C36_EachListenerOnce ==
    [][/\ (calc'.inputs > calc.inputs /\ ~calc.destroyed =>
              calc'.outer.armed /\ calc'.outer.due = calc.clock + searchDelay)
       /\ (calc.outer.armed /\ ~calc'.outer.armed => ~IsDue(calc'.outer, calc'.clock))]_vars

\* the home page shows one of its settled panels: the list, the empty
\* state or the error state
HomeSettledPanel == VisiblePanels(homeDom) \in {{"events"}, {"empty"}, {"error"}}

\* C37: a retry or refresh of the home page re-enters loading (the loading
\* flag set, the error flag cleared, only the loading panel visible), and,
\* the fetch settling, the page eventually leaves loading for the list, the
\* empty state or the error state.
C37_ReloadEntersAndLeavesLoading ==
    /\ [][homeLast'.event = "loadStart" /\ homeLoads' > homeLoads =>
             /\ home'.isLoading /\ ~home'.hasError
             /\ VisiblePanels(homeDom') = {"loading"}]_vars
    /\ (homeLoads > 0 /\ home.isLoading) ~> (~home.isLoading /\ HomeSettledPanel)

\* a retry or refresh has put a page that showed a settled panel back into
\* loading
C37_Witness ==
    /\ homeLast.event = "loadStart" /\ homeLoads > 0
    /\ home.events # <<>>
    /\ VisiblePanels(homeDom) = {"loading"}

\* the response that has just been handled, if a step handled one
JustSettled == calc'.settled[Len(calc'.settled)]

\* C38: what the search page shows and records of a search describes the
\* filters of the request whose results they are: the results summary, the
\* no-results message, the highlighted term and the history entry, also
\* when the filters changed or another search started while the request was
\* in flight.
C38_DescribesRequest ==
    [][Len(calc'.settled) > Len(calc.settled) /\ JustSettled.ok =>
          /\ hist'.memory[1].filters = JustSettled.filters
          /\ IF JustSettled.results = <<>>
             THEN spDom'.message = ActiveFilterNames(JustSettled.filters, sp'.categories)
             ELSE /\ spDom'.term = HighlightedTerm(JustSettled.filters)
                  /\ spDom'.summary.about =
                         FilterDescription(JustSettled.filters, sp'.categories)]_vars

\* what the code keeps of C38: the summary, the message, the term and the
\* history entry of a response describe the filters the page has when the
\* response is handled, and the request's filters if they are still those
C38_DescribesFiltersOfNow ==
    [][Len(calc'.settled) > Len(calc.settled) /\ JustSettled.ok =>
          /\ hist'.memory[1].filters = sp.currentFilters
          /\ spDom'.summary.count = Len(JustSettled.results) \/ JustSettled.results = <<>>
          /\ IF JustSettled.results = <<>>
             THEN spDom'.message = ActiveFilterNames(sp.currentFilters, sp.categories)
             ELSE /\ spDom'.term = HighlightedTerm(sp.currentFilters)
                  /\ spDom'.summary.about = FilterDescription(sp.currentFilters, sp.categories)
          /\ (sp.currentFilters = JustSettled.filters =>
                 hist'.memory[1].filters = JustSettled.filters)]_vars

\* C39: in the event page and the search page hasError is true exactly
\* while the error panel is the visible panel, and isLoading and hasError
\* are never both true (so hasError is false after a load or search that
\* succeeded, and isLoading is false after an invalid-id error).
C39_ErrorFlagIsErrorPanel ==
    /\ evp.hasError <=> evDom.error
    /\ ~(evp.isLoading /\ evp.hasError)
    /\ sp.hasError <=> spDom.searchError
    /\ ~(sp.isLoading /\ sp.hasError)

\* the search page's half of C39
C39_SearchErrorFlag ==
    /\ sp.hasError <=> spDom.searchError
    /\ ~(sp.isLoading /\ sp.hasError)

\* what the code keeps of C39: the error panel of either page is visible
\* only with hasError true, and the event page's is never visible together
\* with its loading indicator or its details
C39_ErrorPanelImpliesFlag ==
    /\ evDom.error => evp.hasError /\ ~evDom.loading /\ ~evDom.details
    /\ spDom.searchError => sp.hasError /\ ~spDom.resultsContainer /\ ~spDom.noResults

\* what the code keeps of C39: neither page ever sets hasError back to false
C39_FlagNeverCleared ==
    [][(evp.hasError => evp'.hasError) /\ (sp.hasError => sp'.hasError)]_vars

\* the entries local storage holds under 'search_history'
StoredHistory(h) == SetupSearchHistory(h.item)

\* C40: a completed search stores its entry in front of the entries that
\* were stored before, cut to 10: stored entries are lost only through that
\* bound, however the searches interleave with SearchPage.init.
C40_StoredHistoryOnlyGrows ==
    [][Len(calc'.settled) > Len(calc.settled) /\ JustSettled.ok =>
          StoredHistory(hist') = UpdateSearchHistory(StoredHistory(hist), hist'.memory[1])]_vars

\* what the code keeps of C40: once init has read the stored history, a
\* completed search stores its entry in front of the stored ones, cut to 10
C40_StoredHistoryGrowsAfterInit ==
    [][Len(calc'.settled) > Len(calc.settled) /\ JustSettled.ok /\ calc.init = "done" =>
          StoredHistory(hist') = UpdateSearchHistory(StoredHistory(hist), hist'.memory[1])]_vars

\* what the code keeps of C40: a completed search stores the history the
\* page holds in memory, its entry first
C40_StoresMemory ==
    [][Len(calc'.settled) > Len(calc.settled) /\ JustSettled.ok =>
          /\ hist'.memory = UpdateSearchHistory(hist.memory, hist'.memory[1])
          /\ StoredHistory(hist') = hist'.memory]_vars

====
